---- MODULE Spec2Model ----
(***************************************************************************)
(* A model of gui_builder: declarative fields and forms (fields.py,        *)
(* forms.py), the widget adapters (widgets/widget.py, widgets/wx_widgets.py)*)
(* and the callback wrapper.                                               *)
(*                                                                         *)
(* The module holds several specifications over one set of variables:      *)
(*   SpecForm     a Form class, its metaclass cache and its instances      *)
(*   SpecBind     construction and binding of declarations and fields      *)
(*   SpecRender   rendering, display and destroy of a bound form tree      *)
(*   SpecFocus    default keyboard focus of a form tree                    *)
(*   SpecCallback the callback wrapper and find_event_target               *)
(* Each specification leaves the variables of the others unchanged.        *)
(***************************************************************************)
EXTENDS Integers, Sequences, FiniteSets, TLC

VARIABLES
    \* ---- SpecForm ----
    body,            \* the statements of the form class body, in source order
    decls,           \* every UnboundField created so far (index = identity)
    classAttrs,      \* the class dictionary: attribute name -> value
    baseAttrs,       \* the dictionary of the base class the form class inherits
    unbound_fields,  \* FormMeta's cached cls._unbound_fields (shared by instances)
    forms,           \* the instances of the class
    fld,             \* every bound field created so far (index = identity)
    nOps,            \* add_child / delete_child calls made so far
    \* ---- SpecBind, SpecRender ----
    objs,            \* every declaration and field object (index = identity)
    wids,            \* every widget object created so far (index = identity)
    nCalls,          \* render, display, display_modal and destroy calls so far
    focus,           \* the field set_default_focus last gave focus to, and the
                     \* form the call was made on
    call,            \* the last render, display, focus or destroy call on a
                     \* field and the exception it ended with; a constructor
                     \* or bind call is recorded when it raised (it made no
                     \* field: on is 0)
    \* ---- SpecCallback ----
    cbDef,           \* the callback the program defines and the field it gives it to
    registered,      \* whether the widget holds the wrapped callback
    last,            \* what the last dispatched event did
    nEvents,         \* events dispatched so far
    \* ---- SpecCache ----
    ctl,             \* per object: the Enabled and shown flags of the native
                     \* control of its widget
    cache,           \* per object: a form's _last_child and
                     \* _last_enabled_descendant (0 is None)
    \* ---- SpecRegister ----
    extra,           \* per object: the field's extra_callbacks list
    wcb,             \* per widget: its callbacks table, its wrapped_callbacks
                     \* map and the handlers bound to its native control
    \* ---- SpecDefault ----
    dflt,            \* per object: the field's default_value
    applied,         \* per render call: the form rendered and the populate
                     \* calls that set_default_value made, in order
    \* ---- SpecValue ----
    vctl,            \* the native controls of a rendered form's fields: type,
                     \* text, checked state, items, selection, label
    vcall,           \* the last get_value or set_value call and its result
    \* ---- SpecAncestor ----
    anc,             \* the last get_first_ancestor call and what it returned
    \* ---- SpecWith ----
    blocks,          \* the with statements executed: manager, target, calls made
    exc,             \* the exception propagating, if any
    \* ---- SpecNotebook ----
    nbk,             \* the notebook: fields added by add_item, native pages,
                     \* selection, pages with a navigation handler
    nav              \* the last notebook call or navigation event and its outcome

formVars ==
    <<body, decls, classAttrs, baseAttrs, unbound_fields, forms, fld, nOps>>

fieldVars == <<objs, wids, nCalls, focus, call>>

callbackVars == <<cbDef, registered, last, nEvents>>

cacheVars == <<ctl, cache>>

\* The variables of the specifications that extend a rendered tree.
regVars == <<extra, wcb>>

defaultVars == <<dflt, applied>>

valueVars == <<vctl, vcall>>

ancVars == <<anc>>

withVars == <<blocks, exc>>

nbVars == <<nbk, nav>>

laterVars == <<cacheVars, regVars, defaultVars, valueVars, ancVars, withVars, nbVars>>

notCacheVars == <<formVars, callbackVars, regVars, defaultVars, valueVars, ancVars, withVars, nbVars>>

notRegVars == <<formVars, callbackVars, cacheVars, defaultVars, valueVars, ancVars, withVars, nbVars>>

notDefaultVars == <<formVars, callbackVars, cacheVars, regVars, valueVars, ancVars, withVars, nbVars>>

notValueVars == <<formVars, callbackVars, cacheVars, regVars, defaultVars, ancVars, withVars, nbVars>>

notAncVars == <<formVars, callbackVars, cacheVars, regVars, defaultVars, valueVars, withVars, nbVars>>

notWithVars == <<formVars, callbackVars, cacheVars, regVars, defaultVars, valueVars, ancVars, nbVars>>

notNbVars == <<formVars, callbackVars, cacheVars, regVars, defaultVars, valueVars, ancVars, withVars>>

notNbCacheVars ==
    <<formVars, callbackVars, regVars, defaultVars, valueVars, ancVars, withVars>>

notFormVars ==
    <<objs, wids, nCalls, focus, call, cbDef, registered, last, nEvents,
      laterVars>>

notFieldVars ==
    <<body, decls, classAttrs, baseAttrs, unbound_fields, forms, fld, nOps,
      cbDef, registered, last, nEvents, laterVars>>

notCallbackVars ==
    <<body, decls, classAttrs, baseAttrs, unbound_fields, forms, fld, nOps,
      objs, wids, nCalls, focus, call, laterVars>>

vars == <<body, decls, classAttrs, baseAttrs, unbound_fields, forms, fld, nOps,
          objs, wids, nCalls, focus, call, cbDef, registered, last, nEvents,
          ctl, cache, extra, wcb, dflt, applied, vctl, vcall,
          anc,
          blocks, exc,
          nbk, nav>>

(***************************************************************************)
(* Bounds                                                                  *)
(***************************************************************************)
MaxDecl == 2     \* statements in the class body
MaxInst == 2     \* instances of the form class
MaxOps == 3      \* add_child and delete_child calls
MaxClassOps == 2 \* class attributes set or deleted
MaxObjs == 4     \* declarations and fields constructed in SpecBind
MaxCalls == 2    \* render, display, display_modal and destroy calls
MaxBindCalls == 1 \* render calls among the constructions of SpecBind
MaxEvents == 2   \* events dispatched to the wrapped callback

(***************************************************************************)
(* Before any class body ran and before any object was constructed.        *)
(***************************************************************************)
NoClass ==
    /\ body = <<>>
    /\ decls = <<>>
    /\ classAttrs = <<>>
    /\ baseAttrs = <<>>
    /\ unbound_fields = <<>>
    /\ forms = <<>>
    /\ fld = <<>>
    /\ nOps = 0

NoFocus == [target |-> 0, by |-> 0]

NoCall == [op |-> "none", on |-> 0, err |-> "none"]

NoLast ==
    [n |-> 0, target |-> [kind |-> "notcalled", id |-> 0], pos |-> <<>>,
     kw |-> {}, outcome |-> "none", result |-> "none",
     stopped |-> FALSE, skipped |-> FALSE]

NoCallbacks ==
    /\ cbDef = <<>>
    /\ registered = FALSE
    /\ last = NoLast
    /\ nEvents = 0

NoObjects ==
    /\ objs = <<>>
    /\ wids = <<>>
    /\ nCalls = 0
    /\ focus = NoFocus
    /\ call = NoCall

NoCache ==
    /\ ctl = <<>>
    /\ cache = <<>>

NoRegistrations ==
    /\ extra = <<>>
    /\ wcb = <<>>

NoDefaults ==
    /\ dflt = <<>>
    /\ applied = <<>>

NoValues ==
    /\ vctl = <<>>
    /\ vcall = <<>>

NoAncestor ==
    /\ anc = <<>>

NoWith ==
    /\ blocks = <<>>
    /\ exc = <<>>

NoNotebook ==
    /\ nbk = <<>>
    /\ nav = <<>>

NoLater == NoCache /\ NoRegistrations /\ NoDefaults /\ NoValues /\ NoAncestor /\ NoWith /\ NoNotebook

(***************************************************************************)
(* Names.  dir(cls) lists attribute names alphabetically; NameOrder is     *)
(* that order.                                                             *)
(***************************************************************************)
NameOrder == <<"a", "b", "c">>

Names == {NameOrder[k] : k \in 1..Len(NameOrder)}

NameIdx(n) == CHOOSE k \in 1..Len(NameOrder) : NameOrder[k] = n

NoCallback == "None"

(***************************************************************************)
(* SpecForm                                                                *)
(***************************************************************************)

\* UnboundField.__init__: the class-wide counter is incremented and copied.
NewDecl(D, cb) ==
    Append(D, [creation_counter |-> Len(D) + 1, callback |-> cb])

\* A class-body statement: `name = FieldType(...)` (how = "assign") or
\* `@FieldType(...)` above `def name` (how = "decorate").
Statements == [name : Names, how : {"assign", "decorate"}]

Bodies ==
    {b \in [1..MaxDecl -> Statements] :
        \A p, q \in 1..MaxDecl : p # q => b[p].name # b[q].name}

\* UnboundField.__call__: stores the function as the callback keyword and
\* returns the function, which is what the class body then assigns to the name.
DecoratorResult(func) == [kind |-> "function", ref |-> 0, func |-> func]

\* A class dictionary without public attributes.
NoAttrs == [n \in Names |-> [kind |-> "absent", ref |-> 0, func |-> NoCallback]]

\* The class dictionary after the class body ran.
RECURSIVE ExecBodyAttrs(_, _)
ExecBodyAttrs(b, k) ==
    IF k = 0 THEN NoAttrs
    ELSE LET prev == ExecBodyAttrs(b, k - 1)
             st == b[k]
         IN  IF st.how = "assign"
             THEN [prev EXCEPT ![st.name] =
                      [kind |-> "decl", ref |-> k, func |-> NoCallback]]
             ELSE [prev EXCEPT ![st.name] = DecoratorResult(st.name)]

\* The declarations the class body created, in creation order.
RECURSIVE ExecBodyDecls(_, _)
ExecBodyDecls(b, k) ==
    IF k = 0 THEN <<>>
    ELSE NewDecl(ExecBodyDecls(b, k - 1),
                 IF b[k].how = "decorate" THEN b[k].name ELSE NoCallback)

NoForm ==
    [exists |-> FALSE,
     fields |-> [n \in Names |-> 0],
     extra_fields |-> <<>>,
     last_child |-> 0]

InitForm ==
    /\ body \in Bodies
    /\ decls = ExecBodyDecls(body, MaxDecl)
    /\ classAttrs = ExecBodyAttrs(body, MaxDecl)
    /\ baseAttrs = NoAttrs
    /\ unbound_fields = [isNone |-> TRUE, items |-> <<>>]
    /\ forms = [i \in 1..MaxInst |-> NoForm]
    /\ fld = <<>>
    /\ nOps = 0
    /\ NoObjects
    /\ NoCallbacks
    /\ NoLater

\* fields.sort(key=lambda x: (x[1].creation_counter, x[0]))
KeyLess(x, y, D) ==
    \/ D[x[2]].creation_counter < D[y[2]].creation_counter
    \/ /\ D[x[2]].creation_counter = D[y[2]].creation_counter
       /\ NameIdx(x[1]) < NameIdx(y[1])

RECURSIVE InsertSorted(_, _, _)
InsertSorted(x, s, D) ==
    IF s = <<>> THEN <<x>>
    ELSE IF KeyLess(x, Head(s), D) THEN <<x>> \o s
    ELSE <<Head(s)>> \o InsertSorted(x, Tail(s), D)

RECURSIVE SortFields(_, _)
SortFields(s, D) ==
    IF s = <<>> THEN <<>>
    ELSE InsertSorted(Head(s), SortFields(Tail(s), D), D)

\* FormMeta.__call__: the public attributes carrying _GUI_FIELD, in dir() order.
RECURSIVE CollectFrom(_, _)
CollectFrom(attrs, k) ==
    IF k > Len(NameOrder) THEN <<>>
    ELSE LET n == NameOrder[k]
         IN  (IF attrs[n].kind = "decl" THEN <<(<<n, attrs[n].ref>>)>> ELSE <<>>)
             \o CollectFrom(attrs, k + 1)

CollectFields(attrs, D) == SortFields(CollectFrom(attrs, 1), D)

\* dir(cls) and getattr(cls, name): the attributes of the class and, for
\* the names it does not define, those of its base class.
ClassDir ==
    [n \in Names |->
        IF classAttrs[n].kind # "absent" THEN classAttrs[n] ELSE baseAttrs[n]]

\* name == field_name for name, _ in self._unbound_fields
InUnbound(uf, name) ==
    \E k \in 1..Len(uf.items) : uf.items[k][1] = name

\* UnboundField.bind followed by GUIField.__init__ / GUIField.bind: a new
\* bound field with the parent and the name given.  origin is a history
\* field: "declared" for a field bound while the form is constructed,
\* "added" for one bound by a later add_child, "replaced" for one a later
\* add_child stored under a name the class list held at that moment.
BoundField(d, parent, name, origin) ==
    [parent |-> parent, bound_name |-> name, decl |-> d,
     callback |-> decls[d].callback, origin |-> origin]

\* BaseForm.add_child then Form.add_child, on the record of one form: the
\* field with identity fid is stored under name; it joins _extra_fields
\* unless the class list names it.
AddChildTo(f, uf, name, fid) ==
    [f EXCEPT
        !.fields[name] = fid,
        !.last_child = fid,
        !.extra_fields =
            IF uf.isNone \/ uf.items = <<>> \/ ~InUnbound(uf, name)
            THEN Append(@, <<name, fid>>)
            ELSE @]

\* BaseForm.__init__: add_child for every (name, declaration) of the list.
RECURSIVE InitChildren(_, _, _, _)
InitChildren(f, uf, k, base) ==
    IF k = 0 THEN f
    ELSE AddChildTo(InitChildren(f, uf, k - 1, base), uf, uf.items[k][1], base + k)

RECURSIVE InitFields(_, _, _)
InitFields(uf, k, i) ==
    IF k = 0 THEN <<>>
    ELSE Append(InitFields(uf, k - 1, i),
                BoundField(uf.items[k][2], i, uf.items[k][1], "declared"))

\* FormMeta.__call__ and Form.__init__.
Instantiate(i) ==
    /\ ~forms[i].exists
    /\ \A j \in 1..(i - 1) : forms[j].exists
    /\ LET uf == IF unbound_fields.isNone
                 THEN [isNone |-> FALSE, items |-> CollectFields(ClassDir, decls)]
                 ELSE unbound_fields
           n == Len(uf.items)
           made == InitChildren([NoForm EXCEPT !.exists = TRUE], uf, n, Len(fld))
       IN  /\ unbound_fields' = uf
           /\ fld' = fld \o InitFields(uf, n, i)
           /\ forms' = [forms EXCEPT ![i] = [made EXCEPT !.last_child = 0]]
    /\ UNCHANGED <<body, decls, classAttrs, baseAttrs, nOps, notFormVars>>

\* Form.add_child(field_name, FieldType(...)): a fresh declaration is bound
\* to the form under field_name.
AddChild(i, name) ==
    /\ forms[i].exists
    /\ nOps < MaxOps
    /\ decls' = NewDecl(decls, NoCallback)
    /\ fld' = Append(fld, [parent |-> i, bound_name |-> name,
                           decl |-> Len(decls) + 1,
                           callback |-> NoCallback,
                           origin |-> IF ~unbound_fields.isNone
                                         /\ InUnbound(unbound_fields, name)
                                      THEN "replaced" ELSE "added"])
    /\ forms' = [forms EXCEPT ![i] =
                    AddChildTo(@, unbound_fields, name, Len(fld) + 1)]
    /\ nOps' = nOps + 1
    /\ UNCHANGED <<body, classAttrs, baseAttrs, unbound_fields, notFormVars>>

\* list.remove of the first entry of s named name (none: s unchanged).
RECURSIVE RemoveFirstNamed(_, _)
RemoveFirstNamed(s, name) ==
    IF s = <<>> THEN <<>>
    ELSE IF Head(s)[1] = name THEN Tail(s)
    ELSE <<Head(s)>> \o RemoveFirstNamed(Tail(s), name)

\* Form.delete_child then BaseForm.delete_child.  self._unbound_fields is
\* the class attribute, so the entry is removed from the list every
\* instance reads.  A name that is not a child raises KeyError at the first
\* line and changes nothing.
DeleteChild(i, name) ==
    /\ forms[i].exists
    /\ nOps < MaxOps
    /\ forms[i].fields[name] # 0
    /\ unbound_fields' =
          IF unbound_fields.isNone THEN unbound_fields
          ELSE [unbound_fields EXCEPT !.items = RemoveFirstNamed(@, name)]
    /\ forms' = [forms EXCEPT ![i] =
                    [@ EXCEPT !.extra_fields = RemoveFirstNamed(@, name),
                              !.fields[name] = 0,
                              !.last_child = 0]]
    /\ nOps' = nOps + 1
    /\ UNCHANGED <<body, decls, classAttrs, baseAttrs, fld, notFormVars>>

\* Form.__iter__: the names of the class list, then those of _extra_fields,
\* each yielding the field stored under it if there is one.
RECURSIVE YieldNamed(_, _)
YieldNamed(s, fs) ==
    IF s = <<>> THEN <<>>
    ELSE (IF fs[Head(s)[1]] # 0 THEN <<fs[Head(s)[1]]>> ELSE <<>>)
         \o YieldNamed(Tail(s), fs)

FormIter(i) ==
    YieldNamed((IF unbound_fields.isNone THEN <<>> ELSE unbound_fields.items)
               \o forms[i].extra_fields,
               forms[i].fields)

\* GUIField.get_value of a leaf field: the content of its own widget, a
\* token distinct for every field.
FieldValue(fid) == fid

\* BaseForm.get_value: res[field.bound_name] = field.get_value() for every
\* field the form yields; 0 marks a key that is not in the result.
RECURSIVE ValueOf(_, _)
ValueOf(it, res) ==
    IF it = <<>> THEN res
    ELSE ValueOf(Tail(it),
                 [res EXCEPT ![fld[Head(it)].bound_name] = FieldValue(Head(it))])

GetValue(i) == ValueOf(FormIter(i), [n \in Names |-> 0])

NextForm ==
    \/ \E i \in 1..MaxInst : Instantiate(i)
    \/ \E i \in 1..MaxInst, n \in Names : AddChild(i, n)
    \/ \E i \in 1..MaxInst, n \in Names : DeleteChild(i, n)

SpecForm == InitForm /\ [][NextForm]_vars

\* FormMeta.__setattr__ for `Class.name = FieldType(...)`: a public name
\* resets the cache of the class the attribute is set on, and of that class
\* only; the subclass keeps the list it cached.
SetClassAttr(onBase, name) ==
    /\ nOps < MaxClassOps
    /\ decls' = NewDecl(decls, NoCallback)
    /\ LET v == [kind |-> "decl", ref |-> Len(decls) + 1, func |-> NoCallback]
       IN  IF onBase
           THEN /\ baseAttrs' = [baseAttrs EXCEPT ![name] = v]
                /\ UNCHANGED <<classAttrs, unbound_fields>>
           ELSE /\ classAttrs' = [classAttrs EXCEPT ![name] = v]
                /\ unbound_fields' = [isNone |-> TRUE, items |-> <<>>]
                /\ UNCHANGED baseAttrs
    /\ nOps' = nOps + 1
    /\ UNCHANGED <<body, forms, fld, notFormVars>>

\* FormMeta.__delattr__ for `del Class.name`: the same reset, then the
\* attribute leaves the dictionary of that class (AttributeError when it
\* is not there, the cache being reset all the same).
DelClassAttr(onBase, name) ==
    /\ nOps < MaxClassOps
    /\ IF onBase
       THEN /\ baseAttrs' = [baseAttrs EXCEPT ![name] = NoAttrs[name]]
            /\ UNCHANGED <<classAttrs, unbound_fields>>
       ELSE /\ classAttrs' = [classAttrs EXCEPT ![name] = NoAttrs[name]]
            /\ unbound_fields' = [isNone |-> TRUE, items |-> <<>>]
            /\ UNCHANGED baseAttrs
    /\ nOps' = nOps + 1
    /\ UNCHANGED <<body, decls, forms, fld, notFormVars>>

\* Instantiations of a form class between changes of its public attributes
\* and of those of its base class.  The base class starts with field a.
InitClass ==
    /\ body \in Bodies
    /\ decls = NewDecl(ExecBodyDecls(body, MaxDecl), NoCallback)
    /\ classAttrs = ExecBodyAttrs(body, MaxDecl)
    /\ baseAttrs = [NoAttrs EXCEPT !["a"] = [kind |-> "decl", ref |-> MaxDecl + 1,
                                            func |-> NoCallback]]
    /\ unbound_fields = [isNone |-> TRUE, items |-> <<>>]
    /\ forms = [i \in 1..MaxInst |-> NoForm]
    /\ fld = <<>>
    /\ nOps = 0
    /\ NoObjects
    /\ NoCallbacks
    /\ NoLater

NextClass ==
    \/ \E i \in 1..MaxInst : Instantiate(i)
    \/ \E onBase \in BOOLEAN, n \in Names : SetClassAttr(onBase, n)
    \/ \E onBase \in BOOLEAN, n \in Names : DelClassAttr(onBase, n)

SpecClass == InitClass /\ [][NextClass]_vars

(***************************************************************************)
(* Claims about forms                                                      *)
(***************************************************************************)

Children(i) == {forms[i].fields[n] : n \in Names} \ {0}

\* x is to be yielded before y: declared children by the creation counter of
\* their declarations, then added children in the order they were added
\* (field identities grow with time).
YieldedBefore(x, y) ==
    \/ fld[x].origin = "declared" /\ fld[y].origin = "added"
    \/ /\ fld[x].origin = "declared" /\ fld[y].origin = "declared"
       /\ decls[fld[x].decl].creation_counter < decls[fld[y].decl].creation_counter
    \/ fld[x].origin = "added" /\ fld[y].origin = "added" /\ x < y

\* C1: in every state reached by add_child and delete_child on any
\* instance, iterating a form yields each of its children, the declared
\* ones in ascending creation counter of their declarations and then the
\* added ones in the order they were added.  (A field that add_child stored
\* under a declared name is left out of the order comparison.)
C1_IterationInDeclarationOrder ==
    \A i \in 1..MaxInst :
        forms[i].exists =>
            LET it == FormIter(i)
            IN  /\ {it[k] : k \in 1..Len(it)} = Children(i)
                /\ \A p, q \in 1..Len(it) :
                      (p < q /\ fld[it[p]].origin # "replaced"
                             /\ fld[it[q]].origin # "replaced")
                          => YieldedBefore(it[p], it[q])

\* C5: get_value() has exactly one entry per current child of the form,
\* under the name the child is registered with, holding that child's own
\* value.
C5_GetValueCoversChildren ==
    \A i \in 1..MaxInst :
        forms[i].exists =>
            GetValue(i) = [n \in Names |->
                              IF forms[i].fields[n] # 0
                              THEN FieldValue(forms[i].fields[n]) ELSE 0]

\* C10: a declaration applied as a decorator to a function of the class
\* body gives every instance a child field of that name whose default
\* callback is the decorated function (stated for instances nobody has
\* called add_child or delete_child on).
C10_DecoratedFieldIsChild ==
    \A i \in 1..MaxInst, k \in 1..MaxDecl :
        (forms[i].exists /\ nOps = 0 /\ body[k].how = "decorate") =>
            /\ forms[i].fields[body[k].name] # 0
            /\ fld[forms[i].fields[body[k].name]].callback = body[k].name

(***************************************************************************)
(* SpecBind and SpecRender: construction, binding, rendering, display and  *)
(* destroy of field objects.                                               *)
(***************************************************************************)

FieldTypes ==
    {"Text", "ProgressBar", "Panel", "Notebook", "Dialog", "Menu", "MenuItem"}

\* Field classes without a widget type: GUIField itself (like BaseForm, Form
\* and UIForm) defines no widget_type attribute at all, the annotation at
\* fields.py line 157 being under TYPE_CHECKING; NoneTyped is a subclass
\* that sets widget_type = None.
TypelessTypes == {"GUIField", "NoneTyped"}

\* GUIField.__init__, lines 185-186: with no widget_type argument it reads
\* self.widget_type, an AttributeError for a class that defines none.
InitRaises(t) == t = "GUIField"

\* The field types SpecBind constructs: a leaf and a form.
BindTypes == {"Text", "Panel"}

IsFormType(t) == t \in {"Panel", "Notebook", "Dialog", "Menu"}

\* bound_name of a field whose __init__ never called bind: the attribute
\* does not exist.
Unset == "unset"

\* The keyword arguments of a constructor call that GUIField.__new__ and
\* GUIField.__init__ read: whether parent is among them, its value (0 is
\* None), top_level_window ("true" stands for any truthy value) and
\* default_focus and label (left at their defaults here; label TRUE stands
\* for any non-empty label text).
CtorKwargs(parents) ==
    {kw \in [hasParent : BOOLEAN, parent : {0} \cup parents,
             top_level_window : {"absent", "false", "true"},
             default_focus : {FALSE}, label : {FALSE}] :
        /\ ~kw.hasParent => kw.parent = 0
        /\ kw.hasParent => kw.top_level_window = "absent"}

\* GUIField.__new__: "parent" in kwargs or kwargs.get("top_level_window")
MakesInstance(kw) == kw.hasParent \/ kw.top_level_window = "true"

NoWidgetRef == [kind |-> "none", id |-> 0]

\* An UnboundField: it holds the field type and the keyword arguments and
\* has no parent, bound_name or widget attribute.
UnboundObj(t, kw) ==
    [kind |-> "unbound", ftype |-> t, ctor |-> kw, decl |-> 0,
     boundWith |-> [parent |-> 0, name |-> Unset],
     parent |-> 0, bound_name |-> Unset, widget |-> 0, is_rendered |-> FALSE,
     default_focus |-> FALSE,
     fields |-> [n \in Names |-> 0], extra_fields |-> <<>>]

\* GUIField.__init__: self.parent = None, then bind(parent, bound_name) if a
\* parent was given.  boundWith is a history field: the parent and name the
\* constructor was called with.
FieldObj(t, kw, d, parent, name) ==
    [kind |-> "field", ftype |-> t, ctor |-> kw, decl |-> d,
     boundWith |-> [parent |-> parent, name |-> name],
     parent |-> parent,
     bound_name |-> IF parent # 0 THEN name ELSE Unset,
     widget |-> 0, is_rendered |-> FALSE,
     default_focus |-> kw.default_focus,
     fields |-> [n \in Names |-> 0], extra_fields |-> <<>>]

\* FieldType(**kw): GUIField.__new__ returns an UnboundField unless the call
\* makes a real instance, which __init__ then initialises (bound_name
\* defaults to None).
ConstructObj(t, kw) ==
    IF MakesInstance(kw) THEN FieldObj(t, kw, 0, kw.parent, "None")
    ELSE UnboundObj(t, kw)

\* A bind that would also record the parent and the name on the declaration
\* (what UnboundField.bind does not do).
BindAliasing(O, d, parent, name) ==
    Append([O EXCEPT ![d].parent = parent, ![d].bound_name = name],
           FieldObj(O[d].ftype,
                    [O[d].ctor EXCEPT !.hasParent = TRUE, !.parent = parent],
                    d, parent, name))

\* UnboundField.bind(parent, name): self.field(bound_name=name, parent=parent,
\* **self.kwargs); the heap with the new field appended, the declaration
\* untouched.
BindDecl(O, d, parent, name) ==
    Append(O, FieldObj(O[d].ftype,
                       [O[d].ctor EXCEPT !.hasParent = TRUE, !.parent = parent],
                       d, parent, name))

\* BaseForm.add_child and Form.add_child for a form whose class declares no
\* fields: the declaration d is bound to form p under name, the new field is
\* bound once more (GUIField.bind), stored and appended to _extra_fields.
AddChildObj(O, p, name, d) ==
    LET O1 == BindDecl(O, d, p, name)
        nf == Len(O1)
        O2 == [O1 EXCEPT ![nf].parent = p, ![nf].bound_name = name]
    IN  [O2 EXCEPT ![p].fields[name] = nf,
                   ![p].extra_fields = Append(@, <<name, nf>>)]

IsForm(O, f) == O[f].kind = "field" /\ IsFormType(O[f].ftype)

\* Form.__iter__ of a form object.
ObjIter(O, f) == YieldNamed(O[f].extra_fields, O[f].fields)

\* A render that would hand the parent field itself to every widget (what
\* GUIField.render does only for a parent without a widget attribute).
ParentRefFieldItself(S, f) ==
    LET o == S.objs[f]
    IN  IF o.parent = 0 THEN NoWidgetRef
        ELSE [kind |-> "field", id |-> o.parent]

\* GUIField.render, lines 252-265: the parent handed to the widget is
\* self.parent itself when that has no widget attribute, else its widget.
ParentRef(S, f) ==
    LET o == S.objs[f]
    IN  IF o.parent = 0 THEN NoWidgetRef
        ELSE IF S.objs[o.parent].widget = 0
             THEN [kind |-> "field", id |-> o.parent]
             ELSE [kind |-> "widget", id |-> S.objs[o.parent].widget]

\* A call continues in the state the statement before it left: F applied to
\* the value of S.
Then(S, F(_)) == CHOOSE R \in {F(x) : x \in {S}} : TRUE

\* WXWidget.create_label_control makes a separate StaticText for a widget
\* that is neither unlabeled (the containers) nor selflabeled and has a
\* label text; Menu and MenuItem override create_control and never call it.
HasLabelControl(O, f) == O[f].ctor.label /\ O[f].ftype \in {"Text", "ProgressBar"}

\* Menu.create_control and MenuItem.create_control replace
\* Widget.create_control, the only place where a failing control constructor
\* is wrapped into RuntimeError.
OwnCreateControl(t) == t \in {"Menu", "MenuItem"}

\* MenuItem.create_control calls get_parent_control().Append(...): the
\* exception when the parent is not a widget (a field object or None has no
\* Append), or is a widget whose control is None or destroyed.
MenuItemParentError(W, p) ==
    IF p.kind # "widget" THEN "AttributeError"
    ELSE IF W[p.id].control = "none" THEN "AttributeError"
    ELSE IF W[p.id].control = "dead" THEN "RuntimeError"
    ELSE "none"

\* GUIField.render on state S = [objs, wids, focus, raised, err]: a
\* widget_type that is None is a RuntimeError before anything is made.  fail
\* names the field whose widget cannot be made and how: "widget" when the
\* widget constructor raises (self.widget is not assigned; RuntimeError),
\* "label" when the StaticText of the label cannot be made (self.widget is
\* assigned; the toolkit's exception is re-raised as it is), "control"
\* when the native control cannot be made (the label exists; RuntimeError
\* from Widget.create_control, the toolkit's exception from a create_control
\* that replaces it).  by is a history field: the form whose render loop
\* made the widget (0 for a direct render() call); wtype is the widget
\* class.
RenderField(S, f, fail) ==
    IF S.objs[f].ftype = "NoneTyped" \/ (fail.at = f /\ fail.how = "widget")
    THEN [S EXCEPT !.raised = TRUE, !.err = "RuntimeError"]
    ELSE LET w == Len(S.wids) + 1
             t == S.objs[f].ftype
             p == ParentRef(S, f)
             noLabel == fail.at = f /\ fail.how = "label" /\ HasLabelControl(S.objs, f)
             noParent == IF t = "MenuItem" THEN MenuItemParentError(S.wids, p)
                         ELSE "none"
             noControl == fail.at = f /\ fail.how = "control"
             e == IF noLabel THEN "Other"
                  ELSE IF noParent # "none" THEN noParent
                  ELSE IF noControl
                       THEN (IF OwnCreateControl(t) THEN "Other" ELSE "RuntimeError")
                  ELSE "none"
         IN  [S EXCEPT
                 !.wids = Append(@, [field |-> f, wtype |-> t, parent |-> p,
                                     label |-> IF HasLabelControl(S.objs, f) /\ ~noLabel
                                               THEN "alive" ELSE "none",
                                     control |-> IF e = "none" THEN "alive" ELSE "none",
                                     shown |-> "no", by |-> 0]),
                 !.objs[f].widget = w,
                 !.raised = e # "none",
                 !.err = e]

\* BaseForm.render: GUIField.render for the form, then render() of every
\* field the form yields, in order; the first exception propagates; at the
\* end is_rendered = True.  A leaf field renders with GUIField.render.
RECURSIVE RenderTree(_, _, _)
RECURSIVE RenderKids(_, _, _, _)
RenderKids(S, form, kids, fail) ==
    IF S.raised \/ kids = <<>> THEN S
    ELSE Then(RenderTree(S, Head(kids), fail), LAMBDA S1 :
              LET w == Len(S.wids) + 1
                  S2 == IF Len(S1.wids) >= w
                        THEN [S1 EXCEPT !.wids[w].by = form] ELSE S1
              IN  RenderKids(S2, form, Tail(kids), fail))

RenderTree(S, f, fail) ==
    IF ~IsForm(S.objs, f) THEN RenderField(S, f, fail)
    ELSE Then(RenderField(S, f, fail), LAMBDA S1 :
         Then(RenderKids(S1, f, ObjIter(S1.objs, f), fail), LAMBDA S2 :
              IF S2.raised THEN S2
              ELSE [S2 EXCEPT !.objs[f].is_rendered = TRUE]))

\* Where the widget of one call cannot be made: nowhere, or at one field.
NoFailure == [at |-> 0, how |-> "none"]

Failures(O) ==
    {NoFailure}
    \cup [at : {f \in 1..Len(O) : O[f].kind = "field"},
          how : {"widget", "label", "control"}]

Here ==
    [objs |-> objs, wids |-> wids, focus |-> focus, raised |-> FALSE,
     err |-> "none"]

FormObjs == {f \in 1..Len(objs) : IsForm(objs, f)}

FieldObjs == {f \in 1..Len(objs) : objs[f].kind = "field"}

DeclObjs == {d \in 1..Len(objs) : objs[d].kind = "unbound"}

\* FieldType(**kw)
Construct(t, kw) ==
    /\ Len(objs) < MaxObjs
    /\ IF MakesInstance(kw) /\ InitRaises(t)
       THEN /\ objs' = objs
            /\ call' = [op |-> "construct", on |-> 0, err |-> "AttributeError"]
       ELSE /\ objs' = Append(objs, ConstructObj(t, kw))
            /\ UNCHANGED call
    /\ UNCHANGED <<wids, nCalls, focus, notFieldVars>>

\* declaration.bind(parent, name); parent 0 is None.
BindAct(d, p, name) ==
    /\ Len(objs) < MaxObjs
    /\ IF InitRaises(objs[d].ftype)
       THEN /\ objs' = objs
            /\ call' = [op |-> "bind", on |-> 0, err |-> "AttributeError"]
       ELSE /\ objs' = BindDecl(objs, d, p, name)
            /\ UNCHANGED call
    /\ UNCHANGED <<wids, nCalls, focus, notFieldVars>>

\* obj.render(): an UnboundField has no such method (the attribute lookup
\* raises AttributeError and no call is made); a form renders its children.
RenderAct(f, fail) ==
    /\ nCalls < MaxCalls
    /\ \E S \in {IF objs[f].kind = "unbound" THEN Here
                 ELSE RenderTree(Here, f, fail)} :
           /\ objs' = S.objs
           /\ wids' = S.wids
           /\ focus' = S.focus
           /\ call' = IF objs[f].kind = "unbound" THEN call
                      ELSE [op |-> "render", on |-> f, err |-> S.err]
    /\ nCalls' = nCalls + 1
    /\ UNCHANGED notFieldVars

\* WXWidget.can_be_focused: control_type is not None and cls.focusable.
\* Panel and ProgressBar set focusable = False.
CanBeFocused(t) == t \in {"Text", "Notebook", "Dialog"}

\* BaseForm.get_all_children: every child the form yields, each followed by
\* its own get_all_children() when it has that method.
RECURSIVE GetAllChildren(_, _)
RECURSIVE AllOfKids(_, _)
AllOfKids(O, kids) ==
    IF kids = <<>> THEN <<>>
    ELSE <<Head(kids)>>
         \o (IF IsForm(O, Head(kids)) THEN GetAllChildren(O, Head(kids)) ELSE <<>>)
         \o AllOfKids(O, Tail(kids))

GetAllChildren(O, f) == AllOfKids(O, ObjIter(O, f))

\* The first field of sequence s (0 if none) that can be focused and, when
\* flagged is TRUE, has default_focus set.
FirstFocusable(O, s, flagged) ==
    LET at == {k \in 1..Len(s) :
                  /\ CanBeFocused(O[s[k]].ftype)
                  /\ flagged => O[s[k]].default_focus}
    IN  IF at = {} THEN 0
        ELSE s[CHOOSE k \in at : \A j \in at : k <= j]

\* A choice that would take the first flagged field without asking
\* can_be_focused() (what set_default_focus does not do).
DefaultFocusFlagOnly(O, f) ==
    LET all == GetAllChildren(O, f)
        at == {k \in 1..Len(all) : O[all[k]].default_focus}
    IN  IF at # {} THEN all[CHOOSE k \in at : \A j \in at : k <= j]
        ELSE IF FirstFocusable(O, all, FALSE) # 0 THEN FirstFocusable(O, all, FALSE)
        ELSE f

\* BaseForm.set_default_focus: the field whose set_focus() is called.
DefaultFocusTarget(O, f) ==
    LET all == GetAllChildren(O, f)
    IN  IF FirstFocusable(O, all, TRUE) # 0 THEN FirstFocusable(O, all, TRUE)
        ELSE IF FirstFocusable(O, all, FALSE) # 0 THEN FirstFocusable(O, all, FALSE)
        ELSE f

\* GUIField.set_focus -> WXWidget.set_focus: control.SetFocus(); a field
\* without a widget, or a control that is None or destroyed, raises.
SetDefaultFocus(S, f) ==
    LET t == DefaultFocusTarget(S.objs, f)
    IN  IF S.objs[t].widget = 0 \/ S.wids[S.objs[t].widget].control # "alive"
        THEN [S EXCEPT !.raised = TRUE,
                       !.err = IF S.objs[t].widget # 0
                                  /\ S.wids[S.objs[t].widget].control = "dead"
                               THEN "RuntimeError" ELSE "AttributeError"]
        ELSE [S EXCEPT !.focus = [target |-> t, by |-> f]]

\* form.set_default_focus()
SetDefaultFocusAct(f) ==
    /\ nCalls < MaxCalls
    /\ \E S \in {SetDefaultFocus(Here, f)} :
           /\ focus' = S.focus
           /\ call' = [op |-> "set_default_focus", on |-> f, err |-> S.err]
    /\ nCalls' = nCalls + 1
    /\ UNCHANGED <<objs, wids, notFieldVars>>

\* widget.display() / BaseDialog.display_modal(): the native control is
\* raised and shown; a control that is None or destroyed raises instead.
\* WXWidget.display_modal raises NotImplementedError for a widget that is no
\* dialog.
ShowWidget(W, w, modal, t) ==
    IF W[w].control # "alive" \/ (modal /\ t # "Dialog") THEN W
    ELSE [W EXCEPT ![w].shown = IF modal THEN "modal" ELSE "yes"]

\* The exception of that call: NotImplementedError, or what the use of a
\* control that is None or destroyed raises.
ShowError(W, w, modal, t) ==
    IF modal /\ t # "Dialog" THEN "Other"
    ELSE IF W[w].control = "none" THEN "AttributeError"
    ELSE IF W[w].control = "dead" THEN "RuntimeError"
    ELSE "none"

\* BaseForm._predisplay: render unless is_rendered, then set_default_focus.
Predisplay(S, f, fail) ==
    Then(IF S.objs[f].is_rendered THEN S ELSE RenderTree(S, f, fail),
         LAMBDA S1 : IF S1.raised THEN S1 ELSE SetDefaultFocus(S1, f))

\* BaseForm.display / BaseForm.display_modal for a form, GUIField.display /
\* GUIField.display_modal for a leaf field (which needs its widget).
DisplayOf(f, fail, modal) ==
    Then(IF IsForm(objs, f) THEN Predisplay(Here, f, fail) ELSE Here,
         LAMBDA S :
            LET w == S.objs[f].widget
                t == S.objs[f].ftype
            IN  IF S.raised THEN S
                ELSE IF w = 0
                THEN [S EXCEPT !.raised = TRUE, !.err = "AttributeError"]
                ELSE [S EXCEPT !.wids = ShowWidget(@, w, modal, t),
                               !.err = ShowError(S.wids, w, modal, t),
                               !.raised = ShowError(S.wids, w, modal, t) # "none"])

DisplayAct(f, fail) ==
    /\ nCalls < MaxCalls
    /\ \E S \in {DisplayOf(f, fail, FALSE)} :
           /\ objs' = S.objs
           /\ wids' = S.wids
           /\ focus' = S.focus
           /\ call' = [op |-> "display", on |-> f, err |-> S.err]
    /\ nCalls' = nCalls + 1
    /\ UNCHANGED notFieldVars

DisplayModalAct(f, fail) ==
    /\ nCalls < MaxCalls
    /\ \E S \in {DisplayOf(f, fail, TRUE)} :
           /\ objs' = S.objs
           /\ wids' = S.wids
           /\ focus' = S.focus
           /\ call' = [op |-> "display_modal", on |-> f, err |-> S.err]
    /\ nCalls' = nCalls + 1
    /\ UNCHANGED notFieldVars

\* Widget x was created (directly or through its ancestors) inside the
\* native control of widget w: the toolkit destroys it with w.
RECURSIVE UnderWidget(_, _, _)
UnderWidget(W, x, w) ==
    /\ W[x].parent.kind = "widget"
    /\ \/ W[x].parent.id = w
       \/ UnderWidget(W, W[x].parent.id, w)

\* A MenuItem widget whose destroy() reaches a live item through a live
\* menu: its parent is a Menu widget (anything else has no destroy_item).
ItemDestroyable(W, w) ==
    LET p == W[w].parent
    IN  /\ p.kind = "widget"
        /\ W[p.id].wtype = "Menu"
        /\ W[p.id].control = "alive"
        /\ W[w].control = "alive"

\* A destroy that would leave the label control alone (what
\* WXWidget.destroy does not do).
DestroyControlOnly(W, w) ==
    LET goes == W[w].control = "alive"
                /\ (W[w].wtype = "MenuItem" => ItemDestroyable(W, w))
    IN  [x \in 1..Len(W) |->
            IF goes /\ x = w THEN [W[x] EXCEPT !.control = "dead"]
            ELSE IF goes /\ UnderWidget(W, x, w)
            THEN [W[x] EXCEPT !.control = IF @ = "alive" THEN "dead" ELSE @,
                              !.label = IF @ = "alive" THEN "dead" ELSE @]
            ELSE W[x]]

\* GUIField.destroy -> WXWidget.destroy: label_control.Destroy() when there
\* is a label control, then control.Destroy(); on a destroyed one the
\* toolkit's PyDeadObjectError is caught and ignored.  MenuItem.destroy:
\* parent.destroy_item(self) -> Menu.control.DestroyItem(item.control).
\* The toolkit destroys with a control everything created inside it.
DestroyWidget(W, w) ==
    LET item == W[w].wtype = "MenuItem"
        goes == W[w].control = "alive" /\ (item => ItemDestroyable(W, w))
    IN  [x \in 1..Len(W) |->
            IF x = w
            THEN [W[x] EXCEPT
                     !.label = IF ~item /\ @ = "alive" THEN "dead" ELSE @,
                     !.control = IF goes THEN "dead" ELSE @]
            ELSE IF goes /\ UnderWidget(W, x, w)
            THEN [W[x] EXCEPT !.control = IF @ = "alive" THEN "dead" ELSE @,
                              !.label = IF @ = "alive" THEN "dead" ELSE @]
            ELSE W[x]]

\* The exception destroy() ends with.  A field without a widget, a parent
\* without destroy_item and a control that is None give AttributeError;
\* MenuItem.destroy has no handler for the PyDeadObjectError (RuntimeError,
\* wx_widgets.py line 55) of a destroyed menu or a destroyed item, and
\* DestroyItem(None) is a TypeError.
DestroyError(O, W, f) ==
    IF O[f].widget = 0 THEN "AttributeError"
    ELSE LET w == O[f].widget
             p == W[w].parent
         IN  IF W[w].wtype = "MenuItem"
             THEN IF p.kind # "widget" \/ W[p.id].wtype # "Menu"
                     \/ W[p.id].control = "none"
                  THEN "AttributeError"
                  ELSE IF W[p.id].control = "dead" \/ W[w].control = "dead"
                  THEN "RuntimeError"
                  ELSE IF W[w].control = "none" THEN "Other"
                  ELSE "none"
             ELSE IF W[w].control = "none" THEN "AttributeError"
             ELSE "none"

\* field.destroy()
DestroyAct(f) ==
    /\ nCalls < MaxCalls
    /\ wids' = IF objs[f].widget = 0 THEN wids
               ELSE DestroyWidget(wids, objs[f].widget)
    /\ call' = [op |-> "destroy", on |-> f, err |-> DestroyError(objs, wids, f)]
    /\ nCalls' = nCalls + 1
    /\ UNCHANGED <<objs, focus, notFieldVars>>

TopKw ==
    [hasParent |-> FALSE, parent |-> 0, top_level_window |-> "true",
     default_focus |-> FALSE, label |-> FALSE]

DeclKw ==
    [hasParent |-> FALSE, parent |-> 0, top_level_window |-> "absent",
     default_focus |-> FALSE, label |-> FALSE]

\* The names SpecBind binds under.
BindNames == {"a", "b"}

NextBind ==
    \/ \E t \in BindTypes, kw \in CtorKwargs(FormObjs) : Construct(t, kw)
    \/ \E d \in DeclObjs, p \in {0} \cup FormObjs, n \in BindNames : BindAct(d, p, n)
    \/ \E f \in 1..Len(objs) : nCalls < MaxBindCalls /\ RenderAct(f, NoFailure)

\* A top-level form has been constructed: Panel(top_level_window=True).
InitBind ==
    /\ objs = <<ConstructObj("Panel", TopKw)>>
    /\ wids = <<>>
    /\ nCalls = 0
    /\ focus = NoFocus
    /\ call = NoCall
    /\ NoClass
    /\ NoCallbacks
    /\ NoLater

SpecBind == InitBind /\ [][NextBind]_vars

\* The same calls on field classes without a widget type.
NextTypeless ==
    \/ \E t \in TypelessTypes, kw \in CtorKwargs(FormObjs) : Construct(t, kw)
    \/ \E d \in DeclObjs, p \in {0} \cup FormObjs, n \in BindNames : BindAct(d, p, n)
    \/ \E f \in 1..Len(objs) : RenderAct(f, NoFailure)

SpecTypeless == InitBind /\ [][NextTypeless]_vars

\* Form trees as construction leaves them: a Text declaration, a Panel
\* declaration and a top-level Dialog; either two Text children, or a Text
\* child and a Panel child that holds a Text child.
TreeBase ==
    <<ConstructObj("Text", DeclKw), ConstructObj("Panel", DeclKw),
      ConstructObj("Dialog", TopKw)>>

TreeFlat == AddChildObj(AddChildObj(TreeBase, 3, "a", 1), 3, "b", 1)

TreeNested ==
    AddChildObj(AddChildObj(AddChildObj(TreeBase, 3, "a", 1), 3, "b", 2), 5, "a", 1)

\* A dialog with a labelled Text child and a Menu child that holds a
\* MenuItem: declarations 1 to 3, the dialog 4, its children 5 and 6, the
\* item 7.
LabelKw == [DeclKw EXCEPT !.label = TRUE]

MenuBase ==
    <<ConstructObj("Text", LabelKw), ConstructObj("Menu", DeclKw),
      ConstructObj("MenuItem", LabelKw), ConstructObj("Dialog", TopKw)>>

TreeMenu ==
    AddChildObj(AddChildObj(AddChildObj(MenuBase, 4, "a", 1), 4, "b", 2), 6, "a", 3)

\* The menu tree after dialog.render().
MenuRendered ==
    RenderTree([objs |-> TreeMenu, wids |-> <<>>, focus |-> NoFocus,
                raised |-> FALSE, err |-> "none"], 4, NoFailure)

InitRender ==
    /\ \/ objs \in {TreeFlat, TreeNested, TreeMenu} /\ wids = <<>>
       \/ objs = MenuRendered.objs /\ wids = MenuRendered.wids
    /\ nCalls = 0
    /\ focus = NoFocus
    /\ call = NoCall
    /\ NoClass
    /\ NoCallbacks
    /\ NoLater

NextRender ==
    \/ \E f \in 1..Len(objs), fail \in Failures(objs) : RenderAct(f, fail)
    \/ \E f \in FieldObjs, fail \in Failures(objs) : DisplayAct(f, fail)
    \/ \E f \in FieldObjs, fail \in Failures(objs) : DisplayModalAct(f, fail)
    \/ \E f \in FieldObjs : DestroyAct(f)

SpecRender == InitRender /\ [][NextRender]_vars

\* The same trees driven through display() and display_modal() alone.
NextDisplay ==
    \/ \E f \in FieldObjs, fail \in Failures(objs) : DisplayAct(f, fail)
    \/ \E f \in FieldObjs, fail \in Failures(objs) : DisplayModalAct(f, fail)

SpecDisplay == InitRender /\ [][NextDisplay]_vars

(***************************************************************************)
(* SpecFocus: set_default_focus on form trees whose fields differ in type  *)
(* and in default_focus.                                                   *)
(***************************************************************************)

FocusKw(df) ==
    [hasParent |-> FALSE, parent |-> 0, top_level_window |-> "absent",
     default_focus |-> df, label |-> FALSE]

\* The declarations the trees are bound from: 1, 2 Text; 3, 4 ProgressBar;
\* 5, 6 Panel; the even ones with default_focus=True.  7 is the top-level
\* Dialog.
FocusBase ==
    <<ConstructObj("Text", FocusKw(FALSE)), ConstructObj("Text", FocusKw(TRUE)),
      ConstructObj("ProgressBar", FocusKw(FALSE)),
      ConstructObj("ProgressBar", FocusKw(TRUE)),
      ConstructObj("Panel", FocusKw(FALSE)), ConstructObj("Panel", FocusKw(TRUE)),
      ConstructObj("Dialog", TopKw)>>

\* dialog.add_child("a", la); dialog.add_child("b", pn);
\* dialog.add_child("c", lc); dialog.b.add_child("a", lpa);
\* dialog.b.add_child("b", lpb): fields 8 to 12, the panel's children made
\* after the dialog's last child.
FocusTree(la, pn, lc, lpa, lpb) ==
    AddChildObj(
        AddChildObj(
            AddChildObj(
                AddChildObj(
                    AddChildObj(FocusBase, 7, "a", la),
                    7, "b", pn),
                7, "c", lc),
            9, "a", lpa),
        9, "b", lpb)

FocusTrees ==
    {FocusTree(la, pn, lc, lpa, lpb) :
        la \in 1..4, pn \in 5..6, lc \in 1..4, lpa \in 1..4, lpb \in 1..4}

InitFocus ==
    /\ objs \in FocusTrees
    /\ wids = <<>>
    /\ nCalls = 0
    /\ focus = NoFocus
    /\ call = NoCall
    /\ NoClass
    /\ NoCallbacks
    /\ NoLater

NextFocus ==
    \/ \E f \in FormObjs : RenderAct(f, NoFailure)
    \/ \E f \in FormObjs : SetDefaultFocusAct(f)

SpecFocus == InitFocus /\ [][NextFocus]_vars

(***************************************************************************)
(* Claims about default focus                                              *)
(***************************************************************************)

IsChildOf(O, p, c) == \E k \in 1..Len(ObjIter(O, p)) : ObjIter(O, p)[k] = c

ChildPos(O, p, c) == CHOOSE k \in 1..Len(ObjIter(O, p)) : ObjIter(O, p)[k] = c

\* x is a descendant of form f
RECURSIVE IsDescendant(_, _, _)
IsDescendant(O, f, x) ==
    /\ O[x].parent # 0
    /\ IsChildOf(O, O[x].parent, x)
    /\ \/ O[x].parent = f
       \/ IsDescendant(O, f, O[x].parent)

\* x comes before y in depth-first pre-order: x is an ancestor of y, or
\* below some common ancestor the branch of x is an earlier child than the
\* branch of y.
PreOrderBefore(O, x, y) ==
    \/ IsDescendant(O, x, y)
    \/ \E p, cx, cy \in 1..Len(O) :
          /\ IsChildOf(O, p, cx) /\ IsChildOf(O, p, cy)
          /\ cx = x \/ IsDescendant(O, cx, x)
          /\ cy = y \/ IsDescendant(O, cy, y)
          /\ ChildPos(O, p, cx) < ChildPos(O, p, cy)

\* t is the first, in pre-order, of the descendants of f in set C
FirstInPreOrder(O, C, t) ==
    /\ t \in C
    /\ \A y \in C \ {t} : PreOrderBefore(O, t, y)

\* C4: whenever set_default_focus on a form has given focus, the field that
\* has it is the first descendant in depth-first pre-order that is flagged
\* default_focus and can be focused; if there is none, the first descendant
\* that can be focused; if there is none, the form itself.
C4_DefaultFocusTarget ==
    focus.by # 0 =>
        LET f == focus.by
            desc == {x \in 1..Len(objs) : IsDescendant(objs, f, x)}
            able == {x \in desc : CanBeFocused(objs[x].ftype)}
            flagged == {x \in able : objs[x].default_focus}
        IN  IF flagged # {} THEN FirstInPreOrder(objs, flagged, focus.target)
            ELSE IF able # {} THEN FirstInPreOrder(objs, able, focus.target)
            ELSE focus.target = f

\* C4 witness: set_default_focus on the dialog passed over an earlier field
\* that can be focused and over an earlier flagged field that cannot, and
\* gave focus to a flagged field inside the nested panel.
C4_Witness ==
    /\ focus.by = 7
    /\ focus.target \in {11, 12}
    /\ CanBeFocused(objs[8].ftype) /\ ~objs[8].default_focus
    /\ objs[9].default_focus

(***************************************************************************)
(* SpecCallback: callback_wrapper, find_event_target and the dispatch of   *)
(* native events to a registered callback.                                 *)
(***************************************************************************)

\* 1 Text, 2 Panel, 3 Notebook declarations; 4 the top-level Dialog.
SceneBase ==
    <<ConstructObj("Text", DeclKw), ConstructObj("Panel", DeclKw),
      ConstructObj("Notebook", DeclKw), ConstructObj("Dialog", TopKw)>>

\* dialog.a = Text (5), dialog.b = Notebook (6), dialog.c = Panel (7),
\* notebook.a = Panel (8), its child a = Text (9), panel.a = Text (10).
SceneTree ==
    AddChildObj(
        AddChildObj(
            AddChildObj(
                AddChildObj(
                    AddChildObj(
                        AddChildObj(SceneBase, 4, "a", 1),
                        4, "b", 3),
                    4, "c", 2),
                6, "a", 2),
            8, "a", 1),
        7, "a", 1)

\* The scene after dialog.render().
Scene ==
    RenderTree([objs |-> SceneTree, wids |-> <<>>, focus |-> NoFocus,
                raised |-> FALSE, err |-> "none"], 4, NoFailure)

SceneFields == 4..10

\* extract_event_data: one entry per Get* method of the event, and the
\* event itself under "event".
EventAttrs == {"id", "event"}

Param(n, d) == [name |-> n, dflt |-> d]

\* The parameter lists of callbacks:
\*   ()  (self)  (self, event)  (self, **kwargs)  (self, event=None)
\*   (event)  (event=None)  (self, id=None)  (**kwargs)  (*args, **kwargs)
\*   (self, *args, **kwargs)
Shapes ==
    {[params |-> <<>>, varargs |-> FALSE, varkw |-> FALSE],
     [params |-> <<Param("self", FALSE)>>, varargs |-> FALSE, varkw |-> FALSE],
     [params |-> <<Param("self", FALSE), Param("event", FALSE)>>,
      varargs |-> FALSE, varkw |-> FALSE],
     [params |-> <<Param("self", FALSE)>>, varargs |-> FALSE, varkw |-> TRUE],
     [params |-> <<Param("self", FALSE), Param("event", TRUE)>>,
      varargs |-> FALSE, varkw |-> FALSE],
     [params |-> <<Param("event", FALSE)>>, varargs |-> FALSE, varkw |-> FALSE],
     [params |-> <<Param("event", TRUE)>>, varargs |-> FALSE, varkw |-> FALSE],
     [params |-> <<Param("self", FALSE), Param("id", TRUE)>>,
      varargs |-> FALSE, varkw |-> FALSE],
     [params |-> <<>>, varargs |-> FALSE, varkw |-> TRUE],
     [params |-> <<>>, varargs |-> TRUE, varkw |-> TRUE],
     [params |-> <<Param("self", FALSE)>>, varargs |-> TRUE, varkw |-> TRUE]}

\* A callback: its parameter list, the fields whose class has the function
\* as a method (owners), and whether the callback object handed over is the
\* bound method of an owner instead of the plain function.
Callbacks ==
    {cb \in [shape : Shapes, owners : SUBSET SceneFields, bound : BOOLEAN] :
        /\ Cardinality(cb.owners) <= 2
        /\ cb.bound => /\ cb.owners # {}
                       /\ cb.shape.params # <<>>
                       /\ cb.shape.params[1].name = "self"}

\* The program: one callback, given to the widget of one field.
CallbackDefs == [widget : SceneFields, cb : Callbacks]

InitCallback ==
    /\ objs = Scene.objs
    /\ wids = Scene.wids
    /\ nCalls = 0
    /\ focus = NoFocus
    /\ call = NoCall
    /\ NoClass
    /\ cbDef \in CallbackDefs
    /\ registered = FALSE
    /\ last = NoLast
    /\ nEvents = 0
    /\ NoLater

\* inspect.getfullargspec(callback).args: the named parameters, self included
\* for a bound method.
ArgNames(cb) == [i \in 1..Len(cb.shape.params) |-> cb.shape.params[i].name]

\* argspec.defaults is not None
HasDefaults(cb) == \E i \in 1..Len(cb.shape.params) : cb.shape.params[i].dflt

\* hasattr(callback, "im_self"): the attribute of a Python 2 bound method; a
\* Python 3 bound method has __self__ and no im_self.
HasImSelf(cb) == FALSE

\* The first condition of the wrapper: whether a self is looked for.
WantsSelf(cb) ==
    \/ /\ Len(ArgNames(cb)) > 0
       /\ ArgNames(cb)[1] = "self"
       /\ ~HasImSelf(cb)
    \/ cb.shape.varargs /\ cb.shape.varkw

\* WXWidget.find_callback_in_dict: some member of the field has the callback
\* object itself as its __func__; the __func__ of a member is a plain
\* function, never a bound method.
FindCallbackInDict(f, cb) == ~cb.bound /\ f \in cb.owners

Target(k, i) == [kind |-> k, id |-> i]

\* The loop over self.field.get_all_children(): the first child whose widget
\* finds the callback; reading child.widget of a child that has none raises
\* AttributeError.
FindInChildren(O, all, cb) ==
    LET stop == {k \in 1..Len(all) :
                    O[all[k]].widget = 0 \/ FindCallbackInDict(all[k], cb)}
    IN  IF stop = {} THEN Target("ValueError", 0)
        ELSE LET m == CHOOSE k \in stop : \A j \in stop : k <= j
             IN  IF O[all[m]].widget = 0 THEN Target("AttributeError", 0)
                 ELSE Target("field", all[m])

\* WXWidget.find_event_target, and Notebook.find_event_target for the widget
\* of a Notebook.  A parent that is a field and no widget has neither
\* find_callback_in_dict nor field.
FindEventTarget(O, W, w, cb) ==
    LET par == W[O[w].widget].parent
    IN  IF O[w].ftype = "Notebook"
        THEN IF par.kind = "none" THEN Target("None", 0)
             ELSE IF par.kind = "field" THEN Target("AttributeError", 0)
             ELSE Target("field", W[par.id].field)
        ELSE IF FindCallbackInDict(w, cb) THEN Target("field", w)
        ELSE IF par.kind = "field" THEN Target("AttributeError", 0)
        ELSE IF par.kind = "widget" /\ FindCallbackInDict(W[par.id].field, cb)
             THEN Target("field", W[par.id].field)
        ELSE IF IsForm(O, w) THEN FindInChildren(O, GetAllChildren(O, w), cb)
        ELSE Target("ValueError", 0)

\* The keyword arguments the wrapper builds: all of the event data for a
\* callback with **kwargs; for one with defaults, the event data named by
\* its parameters.
WrapperKwargs(cb) ==
    (IF cb.shape.varkw THEN EventAttrs ELSE {})
    \cup (IF HasDefaults(cb)
          THEN {ArgNames(cb)[i] : i \in 1..Len(ArgNames(cb))} \cap EventAttrs
          ELSE {})

\* callback(*a, **k) as Python binds it: TRUE when the call raises TypeError
\* (too many positional arguments, a keyword the function does not take, a
\* parameter given twice, a required parameter missing).  A bound method
\* puts its instance in front of a.
CallFails(cb, a, k) ==
    LET P == cb.shape.params
        npos == Len(a) + (IF cb.bound THEN 1 ELSE 0)
        byPos == {P[i].name : i \in 1..(IF npos < Len(P) THEN npos ELSE Len(P))}
        names == {P[i].name : i \in 1..Len(P)}
    IN  \/ npos > Len(P) /\ ~cb.shape.varargs
        \/ k \cap byPos # {}
        \/ k \ names # {} /\ ~cb.shape.varkw
        \/ \E i \in 1..Len(P) : i > npos /\ ~P[i].dflt /\ P[i].name \notin k

\* What the callback returns: VETO, other truthy values, falsy values.
Results == {"VETO", "OK", "True", "None", "False", "zero", "empty"}

Truthy(r) == r \in {"VETO", "OK", "True"}

\* An effect that would skip only for None (what the wrapper does not do).
EventEffectSkipOnNone(r) ==
    [stopped |-> r = "VETO", skipped |-> r # "VETO" /\ r = "None"]

\* if result == VETO: evt.StopPropagation() elif not result: evt.Skip()
EventEffect(r) ==
    [stopped |-> r = "VETO", skipped |-> r # "VETO" /\ ~Truthy(r)]

\* wrapper(evt) for callback cb of the widget of field w; behaviour is what
\* the callback does when it is invoked: return a result, or "raise".
Wrapper(O, W, w, cb, behaviour, n) ==
    LET t == IF WantsSelf(cb) THEN FindEventTarget(O, W, w, cb)
             ELSE Target("notcalled", 0)
        a == IF t.kind = "field" THEN <<t.id>> ELSE <<>>
        k == WrapperKwargs(cb)
        base == [NoLast EXCEPT !.n = n, !.target = t]
    IN  IF t.kind = "AttributeError"
        THEN [base EXCEPT !.outcome = "AttributeError"]
        ELSE IF CallFails(cb, a, k)
        THEN [base EXCEPT !.pos = a, !.kw = k, !.outcome = "TypeError"]
        ELSE IF behaviour = "raise"
        THEN [base EXCEPT !.pos = a, !.kw = k, !.outcome = "raised"]
        ELSE [base EXCEPT !.pos = a, !.kw = k, !.outcome = "returned",
                          !.result = behaviour,
                          !.stopped = EventEffect(behaviour).stopped,
                          !.skipped = EventEffect(behaviour).skipped]

\* widget.register_callback(callback_type, callback): the wrapper is made
\* and bound to the native event; the callback is not inspected.
RegisterCallback ==
    /\ ~registered
    /\ registered' = TRUE
    /\ UNCHANGED <<cbDef, last, nEvents, notCallbackVars>>

\* widget.unregister_callback(callback_type, callback)
UnregisterCallback ==
    /\ registered
    /\ registered' = FALSE
    /\ UNCHANGED <<cbDef, last, nEvents, notCallbackVars>>

\* The toolkit delivers an event to the wrapper.
Dispatch(behaviour) ==
    /\ registered
    /\ nEvents < MaxEvents
    /\ last' = Wrapper(objs, wids, cbDef.widget, cbDef.cb, behaviour, nEvents + 1)
    /\ nEvents' = nEvents + 1
    /\ UNCHANGED <<cbDef, registered, notCallbackVars>>

NextCallback ==
    \/ RegisterCallback
    \/ UnregisterCallback
    \/ \E b \in Results \cup {"raise"} : Dispatch(b)

SpecCallback == InitCallback /\ [][NextCallback]_vars

(***************************************************************************)
(* Claims about binding and rendering                                      *)
(***************************************************************************)

\* The native controls that exist for field f: those of every widget object
\* made for it whose control was created and not destroyed.
ControlsOf(f) ==
    {w \in 1..Len(wids) : wids[w].field = f /\ wids[w].control = "alive"}

\* C2: after any sequence of render, display, display_modal and destroy
\* calls on a bound form tree, repeated and failing calls included, no field
\* has more than one native control, and a field without a widget has none.
C2_OneWidgetPerRenderedField ==
    \A f \in FieldObjs :
        /\ Cardinality(ControlsOf(f)) <= 1
        /\ objs[f].widget = 0 => ControlsOf(f) = {}

C6_VetoStopsFalsySkips ==
    last.n > 0 =>
        /\ last.stopped <=> (last.outcome = "returned" /\ last.result = "VETO")
        /\ last.skipped <=> (last.outcome = "returned" /\ ~Truthy(last.result))
        /\ ~(last.stopped /\ last.skipped)
        /\ last.outcome # "returned" => ~last.stopped /\ ~last.skipped

\* C6 witness: a callback that was invoked returned False and the event was
\* skipped and not stopped.
C6_Witness ==
    /\ last.n > 0
    /\ last.outcome = "returned"
    /\ last.result = "False"
    /\ last.skipped /\ ~last.stopped

\* The field of the parent widget of field w (0 if it has none).
ParentFieldOf(w) ==
    LET par == wids[objs[w].widget].parent
    IN  IF par.kind = "widget" THEN wids[par.id].field ELSE 0

\* The fields find_event_target of the widget of w is to look at.
Searched(w) ==
    {w} \cup ({ParentFieldOf(w)} \ {0})
        \cup {x \in 1..Len(objs) : IsDescendant(objs, w, x)}

\* C7: the owning field is passed as first positional argument exactly when
\* the first parameter is named self and the callback is no bound method, or
\* the callback takes both *args and **kwargs, and in either case a field
\* owning the callback is found; the event's attributes are passed as
\* keyword arguments exactly when the callback takes **kwargs.
C7_InjectionByParameterList ==
    (last.n > 0 /\ last.outcome # "AttributeError") =>
        LET cb == cbDef.cb
            first == cb.shape.params # <<>> /\ cb.shape.params[1].name = "self"
        IN  /\ last.pos # <<>>
                <=> /\ \/ first /\ ~cb.bound
                       \/ cb.shape.varargs /\ cb.shape.varkw
                    /\ Searched(cbDef.widget) \cap cb.owners # {}
            /\ last.kw # {} <=> cb.shape.varkw

\* C8: when the wrapper asks for the target of a plain-function callback,
\* find_event_target gives the widget's own field if the function is one of
\* its methods, else the parent widget's field if it is one of its methods,
\* else the first descendant in depth-first order that has it, else raises
\* ValueError and the callback is invoked without self; whatever the widget
\* type, a field that is returned has the function as a method.
C8_TargetOwnsCallback ==
    (last.n > 0 /\ last.target.kind # "notcalled" /\ ~cbDef.cb.bound) =>
        LET w == cbDef.widget
            own == cbDef.cb.owners
            desc == {x \in own : IsDescendant(objs, w, x)}
            t == last.target
        IN  /\ t.kind = "field" => t.id \in own
            /\ IF w \in own THEN t = Target("field", w)
               ELSE IF ParentFieldOf(w) \in own
                    THEN t = Target("field", ParentFieldOf(w))
               ELSE IF desc # {}
                    THEN t.kind = "field" /\ FirstInPreOrder(objs, desc, t.id)
               ELSE t.kind = "ValueError" /\ last.pos = <<>>

\* The documented callback shapes: callback(self), callback(self, event),
\* callback(self, **kwargs).
DocumentedShapes ==
    {[params |-> <<Param("self", FALSE)>>, varargs |-> FALSE, varkw |-> FALSE],
     [params |-> <<Param("self", FALSE), Param("event", FALSE)>>,
      varargs |-> FALSE, varkw |-> FALSE],
     [params |-> <<Param("self", FALSE)>>, varargs |-> FALSE, varkw |-> TRUE]}

\* C9: a callback of a documented shape that is a method of the form owning
\* the field, given as the plain function to the field's widget (no
\* Notebook), is invoked on every event: the call does not fail for a
\* missing or doubled argument, self is the owning form, a parameter named
\* event receives the event, and **kwargs receives the event's attributes.
C9_DocumentedShapesWork ==
    (/\ last.n > 0
     /\ cbDef.cb.shape \in DocumentedShapes
     /\ ~cbDef.cb.bound
     /\ objs[cbDef.widget].ftype # "Notebook"
     /\ objs[cbDef.widget].parent # 0
     /\ cbDef.cb.owners = {objs[cbDef.widget].parent})
        => /\ last.outcome \in {"returned", "raised"}
           /\ last.pos = <<objs[cbDef.widget].parent>>
           /\ Len(cbDef.cb.shape.params) = 2 => "event" \in last.kw
           /\ cbDef.cb.shape.varkw => last.kw = EventAttrs

\* C11: every widget made by the render loop of a form belongs to a child
\* of that form and was created after the form's own widget, with that
\* widget (the form's latest, its native control created) as its parent,
\* never a field object; and the widgets one run of the loop made were
\* created in the form's iteration order.
C11_FormWidgetBeforeChildren ==
    \A x \in 1..Len(wids) :
        wids[x].by # 0 =>
            LET form == wids[x].by
                p == wids[x].parent
            IN  /\ objs[wids[x].field].parent = form
                /\ p.kind = "widget"
                /\ p.id < x
                /\ wids[p.id].field = form
                /\ wids[p.id].control # "none"
                /\ \A y \in (p.id + 1)..(x - 1) : wids[y].field # form
                /\ \A y \in 1..(x - 1) :
                      (wids[y].by = form /\ wids[y].parent = p)
                          => ChildPos(objs, form, wids[y].field)
                                < ChildPos(objs, form, wids[x].field)

\* C11 witness: the render loop of a nested form made the widget of its
\* child after the outer form's loop made the widgets of two children.
C11_Witness ==
    \E x, y, z \in 1..Len(wids) :
        /\ wids[x].by # 0 /\ objs[wids[x].by].parent # 0
        /\ y # z /\ wids[y].by = wids[z].by /\ wids[y].by # 0
        /\ wids[y].parent = wids[z].parent

\* The widgets that render() calls have made for field f.
RendersOf(f) == {w \in 1..Len(wids) : wids[w].field = f}

\* C12: across any number of display() and display_modal() calls every
\* field of the tree is rendered at most once: no field has had a second
\* widget made for it.
C12_RenderedOnceAcrossDisplays ==
    \A f \in FieldObjs : Cardinality(RendersOf(f)) <= 1

\* C13: after destroy() on a field that was rendered (it has a widget
\* whose native control was created), of whatever type, the native control
\* is destroyed and a label control made for it is not alive either.
C13_DestroyKillsControlAndLabel ==
    (call.op = "destroy" /\ objs[call.on].widget # 0)
        => LET w == objs[call.on].widget
           IN  wids[w].control # "none"
                  => /\ wids[w].control = "dead"
                     /\ wids[w].label # "alive"

\* C13 witness: destroy() was called on a field with a label control while
\* the control of its parent was alive, and both of its controls are
\* destroyed.
C13_Witness ==
    /\ call.op = "destroy"
    /\ call.err = "none"
    /\ objs[call.on].widget # 0
    /\ LET w == objs[call.on].widget
       IN  /\ wids[w].control = "dead"
           /\ wids[w].label = "dead"
           /\ wids[w].parent.kind = "widget"
           /\ wids[wids[w].parent.id].control = "alive"

\* C14: a destroy() call on a field whose native control or label control
\* is already destroyed ends without an exception and changes nothing, for
\* every widget type.
C14_DestroyOfDestroyedIsSilent ==
    [][(/\ nCalls' = nCalls + 1
        /\ call'.op = "destroy"
        /\ objs[call'.on].widget # 0
        /\ \/ wids[objs[call'.on].widget].control = "dead"
           \/ wids[objs[call'.on].widget].label = "dead")
          => /\ call'.err = "none"
             /\ wids' = wids
             /\ objs' = objs
             /\ focus' = focus]_vars

\* C15: declaring, binding and instantiating a field whose class has no
\* widget type raise nothing, and render() of such a field raises
\* RuntimeError and makes no widget for it.
C15_MissingWidgetTypeReportedAtRender ==
    /\ call.op \in {"construct", "bind"} => call.err = "none"
    /\ (/\ call.op = "render"
        /\ call.on # 0
        /\ objs[call.on].ftype \in TypelessTypes)
          => /\ call.err = "RuntimeError"
             /\ objs[call.on].widget = 0

\* C16: a render() call on a field in which a widget object, a label
\* control or a native control could not be made ends with RuntimeError (a
\* render() call raises for no other reason).
C16_RenderFailureIsRuntimeError ==
    (call.op = "render" /\ call.on # 0)
        => call.err \in {"none", "RuntimeError"}

\* The strong references among field objects <<"field", f>> and widget
\* objects <<"widget", w>>: GUIField.bind stores the parent itself
\* (self.parent = parent), a form holds its children in _fields and in
\* _extra_fields, a rendered field holds its widget, a widget holds the
\* parent it was given.  Widget.__init__ keeps the field as
\* weakref.proxy(field), which is no strong reference.
StrongRefs ==
    {<<<<"field", f>>, <<"field", objs[f].parent>>>> :
        f \in {g \in FieldObjs : objs[g].parent # 0}}
    \cup UNION {{<<<<"field", f>>, <<"field", objs[f].fields[n]>>>> :
                    n \in {m \in Names : objs[f].fields[m] # 0}} :
                f \in FieldObjs}
    \cup UNION {{<<<<"field", f>>, <<"field", objs[f].extra_fields[k][2]>>>> :
                    k \in 1..Len(objs[f].extra_fields)} :
                f \in FieldObjs}
    \cup {<<<<"field", f>>, <<"widget", objs[f].widget>>>> :
            f \in {g \in FieldObjs : objs[g].widget # 0}}
    \cup {<<<<"widget", w>>, <<wids[w].parent.kind, wids[w].parent.id>>>> :
            w \in {x \in 1..Len(wids) : wids[x].parent.kind # "none"}}

\* The objects reachable from the set R along the references E.
RECURSIVE ReachableFrom(_, _)
ReachableFrom(R, E) ==
    IF {e[2] : e \in {d \in E : d[1] \in R}} \subseteq R THEN R
    ELSE ReachableFrom(R \cup {e[2] : e \in {d \in E : d[1] \in R}}, E)

\* C17: the strong references among fields, forms and widgets form no
\* cycle: no object is reachable from the objects it refers to.
C17_NoStrongReferenceCycle ==
    \A e \in StrongRefs : e[1] \notin ReachableFrom({e[2]}, StrongRefs)

\* The names under which form i yields its fields, in order.
IterNames(i) == [k \in 1..Len(FormIter(i)) |-> fld[FormIter(i)[k]].bound_name]

\* The names the declarations of the class give, in declaration order.
DeclaredNames ==
    [k \in 1..Len(CollectFields(ClassDir, decls)) |->
        CollectFields(ClassDir, decls)[k][1]]

\* C18: an add_child or delete_child call on one instance leaves every
\* other existing instance as it was (its children, what it yields and in
\* which order, its fields and their callbacks), and an instance created
\* afterwards yields the declared fields of the class in declaration order.
C18_OtherInstancesUnchanged ==
    [][/\ \A j \in 1..MaxInst :
             (nOps' = nOps + 1 /\ forms[j].exists /\ forms'[j] = forms[j])
                 => /\ FormIter(j)' = FormIter(j)
                    /\ \A x \in Children(j) : fld'[x] = fld[x]
       /\ \A i \in 1..MaxInst :
             (~forms[i].exists /\ forms'[i].exists)
                 => IterNames(i)' = DeclaredNames]_vars

\* The (name, declaration) pairs of the children of form i.
BoundPairs(i) ==
    {<<n, fld[forms[i].fields[n]].decl>> : n \in {m \in Names : forms[i].fields[m] # 0}}

\* C19: the fields bound into a new instance are exactly the declarations
\* reachable at that moment as public attributes of the class, inherited
\* ones included: the list the instantiation binds from equals a fresh
\* collection.
C19_InstanceBindsFreshCollection ==
    [][\A i \in 1..MaxInst :
          (~forms[i].exists /\ forms'[i].exists)
              => /\ unbound_fields'.items = CollectFields(ClassDir, decls)
                 /\ BoundPairs(i)' =
                       {CollectFields(ClassDir, decls)[k] :
                           k \in 1..Len(CollectFields(ClassDir, decls))}]_vars

\* C20: after any add_child and delete_child calls on a form (here the
\* only instance of its class, so that no other instance has touched the
\* class list), iterating it yields each entry of its name -> field mapping
\* exactly once: every child is yielded and no field is yielded twice.
C20_EachChildYieldedOnce ==
    (forms[1].exists /\ ~forms[2].exists)
        => LET it == FormIter(1)
           IN  /\ \A x \in Children(1) : \E k \in 1..Len(it) : it[k] = x
               /\ \A p, q \in 1..Len(it) : p # q => it[p] # it[q]

(***************************************************************************)
(* SpecCache: the cached _last_child and _last_enabled_descendant of the   *)
(* forms of a rendered tree under enable, disable, hide, show, add_child,  *)
(* delete_child and the two getters.                                       *)
(***************************************************************************)

MaxTreeOps == 4  \* calls made on the tree in SpecCache

\* A control as the toolkit creates it: enabled and shown.
NewCtl == [enabled |-> TRUE, shown |-> TRUE]

\* BaseForm.__init__, lines 61-62: both caches None.
NoCached == [last_child |-> 0, last_enabled |-> 0]

\* widget.enabled, the getter: control.Enabled, which the toolkit answers
\* with the control's own flag and that of the windows it lies in, up to
\* the top-level window.
RECURSIVE IsEnabled(_, _, _)
IsEnabled(O, C, f) ==
    IF O[f].parent = 0 \/ O[f].ftype = "Dialog" THEN C[f].enabled
    ELSE C[f].enabled /\ IsEnabled(O, C, O[f].parent)

\* WXWidget.can_accept_focus: False without a control, else
\* control.CanAcceptFocus(), which the toolkit answers for a control that is
\* shown and enabled.
CanAcceptFocus(O, W, C, f) ==
    /\ W[O[f].widget].control = "alive"
    /\ C[f].shown
    /\ IsEnabled(O, C, f)

\* The list both *_enabled_descendant getters build: the fields of
\* get_all_children() whose widget is enabled, whose type can be focused
\* and whose control can accept focus.
RECURSIVE EnabledFocusable(_, _, _, _)
EnabledFocusable(O, W, C, s) ==
    IF s = <<>> THEN <<>>
    ELSE (IF /\ IsEnabled(O, C, Head(s))
             /\ CanBeFocused(O[Head(s)].ftype)
             /\ CanAcceptFocus(O, W, C, Head(s))
          THEN <<Head(s)>> ELSE <<>>)
         \o EnabledFocusable(O, W, C, Tail(s))

LastOf(s) == IF s = <<>> THEN 0 ELSE s[Len(s)]

\* Every descendant of form f has a widget with a live control: child.widget
\* and control.Enabled raise for none.
AllRendered(O, W, f) ==
    \A k \in 1..Len(GetAllChildren(O, f)) :
        LET c == GetAllChildren(O, f)[k]
        IN  O[c].widget # 0 /\ W[O[c].widget].control = "alive"

\* BaseForm.get_last_enabled_descendant, lines 111-120: the value computed
\* when nothing is cached.
LastEnabledComputed(O, W, C, f) ==
    LastOf(EnabledFocusable(O, W, C, GetAllChildren(O, f)))

\* BaseForm.get_last_child, line 103: list(self.get_all_children())[-1],
\* None for an empty list.
LastChildComputed(O, f) == LastOf(GetAllChildren(O, f))

\* form.get_last_enabled_descendant(): the cached field when there is one,
\* else the computed one, which is cached unless it is None.
GetLastEnabledDescendantAct(f) ==
    /\ nCalls < MaxTreeOps
    /\ AllRendered(objs, wids, f)
    /\ cache' = IF cache[f].last_enabled # 0 THEN cache
                ELSE [cache EXCEPT ![f].last_enabled =
                         LastEnabledComputed(objs, wids, ctl, f)]
    /\ nCalls' = nCalls + 1
    /\ UNCHANGED <<objs, wids, focus, call, ctl, notCacheVars>>

\* form.get_last_child()
GetLastChildAct(f) ==
    /\ nCalls < MaxTreeOps
    /\ cache' = IF cache[f].last_child # 0 THEN cache
                ELSE [cache EXCEPT ![f].last_child = LastChildComputed(objs, f)]
    /\ nCalls' = nCalls + 1
    /\ UNCHANGED <<objs, wids, focus, call, ctl, notCacheVars>>

\* GUIField._reset_last_enabled_descendant: from the field upwards, as long
\* as the parent has a widget, every _last_enabled_descendant is set to
\* None (a leaf has no such attribute).
RECURSIVE ResetLastEnabled(_, _, _)
ResetLastEnabled(O, K, f) ==
    LET K1 == [K EXCEPT ![f].last_enabled = 0]
    IN  IF O[f].parent # 0 /\ O[O[f].parent].widget # 0
        THEN ResetLastEnabled(O, K1, O[f].parent)
        ELSE K1

\* BaseForm.invalidate_descendant_cache
Invalidate(K, p) == [K EXCEPT ![p] = NoCached]

\* field.enable() / field.disable(): the reset, then, for a field with a
\* widget, the enabled setter: the control's flag is written, and when the
\* value read before differs the parent form's caches are invalidated.
SetEnabledAct(f, val) ==
    /\ nCalls < MaxTreeOps
    /\ objs[f].widget # 0
    /\ ctl' = [ctl EXCEPT ![f].enabled = val]
    /\ \E K \in {ResetLastEnabled(objs, cache, f)} :
           cache' = IF IsEnabled(objs, ctl, f) # val /\ objs[f].parent # 0
                    THEN Invalidate(K, objs[f].parent) ELSE K
    /\ nCalls' = nCalls + 1
    /\ UNCHANGED <<objs, wids, focus, call, notCacheVars>>

\* field.hide() / field.show(): control.Hide() / control.Show() and nothing
\* else.
SetShownAct(f, val) ==
    /\ nCalls < MaxTreeOps
    /\ objs[f].widget # 0
    /\ ctl' = [ctl EXCEPT ![f].shown = val]
    /\ nCalls' = nCalls + 1
    /\ UNCHANGED <<objs, wids, focus, call, cache, notCacheVars>>

\* form.add_child(name, declaration): BaseForm.add_child binds and stores
\* the new field and sets the form's _last_child to it (it has no children
\* of its own yet); Form.add_child appends it to _extra_fields.  No other
\* cache of the form or of its ancestors is touched.  The new field has no
\* widget until it is rendered.
CacheAddChildAct(p, name, d) ==
    /\ nCalls < MaxTreeOps
    /\ objs' = AddChildObj(objs, p, name, d)
    /\ ctl' = Append(ctl, NewCtl)
    /\ cache' = Append([cache EXCEPT ![p].last_child = Len(objs) + 1], NoCached)
    /\ nCalls' = nCalls + 1
    /\ UNCHANGED <<wids, focus, call, notCacheVars>>

\* Form.delete_child then BaseForm.delete_child on a form whose class
\* declares no fields: the entry leaves _extra_fields and _fields and the
\* form's own two caches are set to None.  A name that is no child raises
\* KeyError and changes nothing.
DeleteChildObj(O, p, name) ==
    [O EXCEPT ![p].extra_fields = RemoveFirstNamed(@, name),
              ![p].fields[name] = 0]

CacheDeleteChildAct(p, name) ==
    /\ nCalls < MaxTreeOps
    /\ objs[p].fields[name] # 0
    /\ objs' = DeleteChildObj(objs, p, name)
    /\ cache' = Invalidate(cache, p)
    /\ nCalls' = nCalls + 1
    /\ UNCHANGED <<wids, focus, call, ctl, notCacheVars>>

\* field.render() of a field added after the tree was rendered.
\* WXWidget.render ends with self.enabled = self.control_enabled, which
\* writes the value the new control already has.
CacheRenderAct(f) ==
    /\ nCalls < MaxTreeOps
    /\ objs[f].kind = "field" /\ objs[f].widget = 0
    /\ \E S \in {RenderTree(Here, f, NoFailure)} :
           /\ objs' = S.objs
           /\ wids' = S.wids
    /\ cache' = IF ~IsEnabled(objs, ctl, f) /\ objs[f].parent # 0
                THEN Invalidate(cache, objs[f].parent) ELSE cache
    /\ nCalls' = nCalls + 1
    /\ UNCHANGED <<focus, call, ctl, notCacheVars>>

\* A top-level Dialog to which a Text field "a" and an empty Panel "b" were
\* added: declarations 1 and 2, the dialog 3, its children 4 and 5.
CacheTree == AddChildObj(AddChildObj(TreeBase, 3, "a", 1), 3, "b", 2)

\* The tree after dialog.render().
CacheRendered ==
    RenderTree([objs |-> CacheTree, wids |-> <<>>, focus |-> NoFocus,
                raised |-> FALSE, err |-> "none"], 3, NoFailure)

\* The names and the declaration SpecCache adds children with.
CacheNames == {"a", "c"}

\* The two add_child calls left the dialog's _last_child at the panel.
InitCache ==
    /\ objs = CacheRendered.objs
    /\ wids = CacheRendered.wids
    /\ nCalls = 0
    /\ focus = NoFocus
    /\ call = NoCall
    /\ ctl = [f \in 1..Len(CacheTree) |-> NewCtl]
    /\ cache = [f \in 1..Len(CacheTree) |->
                   IF f = 3 THEN [NoCached EXCEPT !.last_child = 5] ELSE NoCached]
    /\ NoClass
    /\ NoCallbacks
    /\ NoRegistrations
    /\ NoDefaults
    /\ NoValues
    /\ NoAncestor
    /\ NoWith
    /\ NoNotebook

NextCache ==
    \/ \E f \in FormObjs : GetLastEnabledDescendantAct(f)
    \/ \E f \in FormObjs : GetLastChildAct(f)
    \/ \E f \in FieldObjs, val \in BOOLEAN : SetEnabledAct(f, val)
    \/ \E f \in FieldObjs, val \in BOOLEAN : SetShownAct(f, val)
    \/ \E p \in FormObjs, n \in CacheNames : CacheAddChildAct(p, n, 1)
    \/ \E p \in FormObjs, n \in Names : CacheDeleteChildAct(p, n)
    \/ \E f \in FieldObjs : CacheRenderAct(f)

SpecCache == InitCache /\ [][NextCache]_vars

\* C21: on a rendered tree, whenever a form holds a cached
\* _last_enabled_descendant, that field is the one a computation from
\* scratch gives: the last field of get_all_children() that is enabled, of a
\* focusable type and able to accept focus.
C21_LastEnabledDescendantNeverStale ==
    \A f \in FormObjs :
        (AllRendered(objs, wids, f) /\ cache[f].last_enabled # 0)
            => cache[f].last_enabled = LastEnabledComputed(objs, wids, ctl, f)

\* C22: whenever a form holds a cached _last_child, that field is the last
\* field of a fresh get_all_children() of the form.
C22_LastChildNeverStale ==
    \A f \in FormObjs :
        cache[f].last_child # 0
            => cache[f].last_child = LastChildComputed(objs, f)

(***************************************************************************)
(* SpecRegister: callbacks added to bound fields and registered with their *)
(* widgets, by render, by add_callback and by register_callback and        *)
(* unregister_callback on the widget.                                      *)
(***************************************************************************)

MaxRegOps == 3  \* calls made in SpecRegister

\* Trigger names that resolve to an event, and the functions given as
\* callbacks.
Triggers == {"text", "char"}

Functions == {"f", "g"}

\* callback_wrapper makes a new function object at every registration: the
\* callback it wraps and a serial number of the widget.
NoWrapper == <<"none", 0>>

\* Widget.__init__ and WXWidget.__init__: an empty callbacks table and an
\* empty wrapped_callbacks map; nothing is bound to the control.
NewWidgetCallbacks ==
    [callbacks |-> [t \in Triggers |-> <<>>],
     wrapped |-> [c \in Functions |-> NoWrapper],
     bound |-> {},
     made |-> 0]

\* WXWidget.register_callback(trigger, callback) for a trigger that resolves
\* and a callable callback: the new wrapper is stored under the callback in
\* wrapped_callbacks (replacing what was there), appended to
\* callbacks[trigger] and bound to the control.  Without a control Bind
\* raises AttributeError after the first two.
RegisterOn(R, alive, t, c) ==
    LET wr == <<c, R.made + 1>>
    IN  [R EXCEPT !.made = @ + 1,
                  !.wrapped[c] = wr,
                  !.callbacks[t] = Append(@, wr),
                  !.bound = IF alive THEN @ \cup {<<t, wr>>} ELSE @]

\* list.remove(x)
RECURSIVE RemoveFirst(_, _)
RemoveFirst(seq, x) ==
    IF seq = <<>> THEN <<>>
    ELSE IF Head(seq) = x THEN Tail(seq)
    ELSE <<Head(seq)>> \o RemoveFirst(Tail(seq), x)

InSeq(x, seq) == \E k \in 1..Len(seq) : seq[k] = x

\* WXWidget.unregister_callback(trigger, callback): wrapped_callbacks.pop
\* (KeyError when the callback has no entry), callbacks[trigger].remove
\* (ValueError when the wrapper is not in that list; the entry is already
\* popped), control.Unbind.
UnregisterOn(R, alive, t, c) ==
    LET wr == R.wrapped[c]
        R1 == [R EXCEPT !.wrapped[c] = NoWrapper]
    IN  IF wr = NoWrapper THEN R
        ELSE IF ~InSeq(wr, R.callbacks[t]) THEN R1
        ELSE [R1 EXCEPT !.callbacks[t] = RemoveFirst(@, wr),
                        !.bound = IF alive THEN @ \ {<<t, wr>>} ELSE @]

UnregisterError(R, alive, t, c) ==
    IF R.wrapped[c] = NoWrapper THEN "KeyError"
    ELSE IF ~InSeq(R.wrapped[c], R.callbacks[t]) THEN "ValueError"
    ELSE IF ~alive THEN "AttributeError"
    ELSE "none"

\* GUIField.register_extra_callbacks: register_callback for every entry of
\* extra_callbacks, in order.
RECURSIVE RegisterAll(_, _)
RegisterAll(R, entries) ==
    IF entries = <<>> THEN R
    ELSE RegisterAll(RegisterOn(R, TRUE, Head(entries)[1], Head(entries)[2]),
                     Tail(entries))

\* The widgets a render made, W being the widgets after it: each starts
\* with empty tables, and GUIField.render calls register_extra_callbacks
\* after a widget.render() that did not raise.
AfterRender(R, W, E) ==
    [k \in 1..Len(W) |->
        IF k <= Len(R) THEN R[k]
        ELSE IF W[k].control = "alive"
             THEN RegisterAll(NewWidgetCallbacks, E[W[k].field])
             ELSE NewWidgetCallbacks]

Added(f) == {extra[f][k][2] : k \in 1..Len(extra[f])}

\* field.add_callback(trigger)(function) on a bound field: the pair is
\* appended to extra_callbacks and, when the field has a widget, registered
\* at once.  Every addition brings a function of its own.
AddCallbackAct(f, t, c) ==
    /\ nCalls < MaxRegOps
    /\ c \notin Added(f)
    /\ extra' = [extra EXCEPT ![f] = Append(@, <<t, c>>)]
    /\ wcb' = IF objs[f].widget = 0 THEN wcb
              ELSE [wcb EXCEPT ![objs[f].widget] =
                       RegisterOn(@, wids[objs[f].widget].control = "alive", t, c)]
    /\ call' = [op |-> "add_callback", on |-> f,
                err |-> IF objs[f].widget # 0
                           /\ wids[objs[f].widget].control # "alive"
                        THEN "AttributeError" ELSE "none"]
    /\ nCalls' = nCalls + 1
    /\ UNCHANGED <<objs, wids, focus, notRegVars>>

\* field.render() with the registrations it makes.
RegRenderAct(f, fail) ==
    /\ nCalls < MaxRegOps
    /\ \E S \in {RenderTree(Here, f, fail)} :
           /\ objs' = S.objs
           /\ wids' = S.wids
           /\ focus' = S.focus
           /\ call' = [op |-> "render", on |-> f, err |-> S.err]
           /\ wcb' = AfterRender(wcb, S.wids, extra)
    /\ nCalls' = nCalls + 1
    /\ UNCHANGED <<extra, notRegVars>>

\* form.display() with the registrations its render makes.
RegDisplayAct(f, fail) ==
    /\ nCalls < MaxRegOps
    /\ \E S \in {DisplayOf(f, fail, FALSE)} :
           /\ objs' = S.objs
           /\ wids' = S.wids
           /\ focus' = S.focus
           /\ call' = [op |-> "display", on |-> f, err |-> S.err]
           /\ wcb' = AfterRender(wcb, S.wids, extra)
    /\ nCalls' = nCalls + 1
    /\ UNCHANGED <<extra, notRegVars>>

\* widget.register_callback(trigger, callback)
RegisterAct(w, t, c) ==
    /\ nCalls < MaxRegOps
    /\ wcb' = [wcb EXCEPT ![w] = RegisterOn(@, wids[w].control = "alive", t, c)]
    /\ call' = [op |-> "register_callback", on |-> wids[w].field,
                err |-> IF wids[w].control = "alive" THEN "none"
                        ELSE "AttributeError"]
    /\ nCalls' = nCalls + 1
    /\ UNCHANGED <<objs, wids, focus, extra, notRegVars>>

\* widget.unregister_callback(trigger, callback)
UnregisterAct(w, t, c) ==
    /\ nCalls < MaxRegOps
    /\ wcb' = [wcb EXCEPT ![w] = UnregisterOn(@, wids[w].control = "alive", t, c)]
    /\ call' = [op |-> "unregister_callback", on |-> wids[w].field,
                err |-> UnregisterError(wcb[w], wids[w].control = "alive", t, c)]
    /\ nCalls' = nCalls + 1
    /\ UNCHANGED <<objs, wids, focus, extra, notRegVars>>

\* The dialog with two Text children, bound and not yet rendered.
InitRegister ==
    /\ objs = TreeFlat
    /\ wids = <<>>
    /\ nCalls = 0
    /\ focus = NoFocus
    /\ call = NoCall
    /\ extra = [f \in 1..Len(TreeFlat) |-> <<>>]
    /\ wcb = <<>>
    /\ NoClass
    /\ NoCallbacks
    /\ NoCache
    /\ NoDefaults
    /\ NoValues
    /\ NoAncestor
    /\ NoWith
    /\ NoNotebook

\* Where a render of SpecRegister fails: nowhere, or at the control of one
\* field.
RegFailures(O) ==
    {NoFailure} \cup [at : {f \in 1..Len(O) : O[f].kind = "field"}, how : {"control"}]

NextRegister ==
    \/ \E f \in FieldObjs, t \in Triggers, c \in Functions : AddCallbackAct(f, t, c)
    \/ \E f \in FieldObjs, fail \in RegFailures(objs) : RegRenderAct(f, fail)
    \/ \E f \in FormObjs, fail \in RegFailures(objs) : RegDisplayAct(f, fail)
    \/ \E w \in 1..Len(wids), t \in Triggers, c \in Functions : RegisterAct(w, t, c)
    \/ \E w \in 1..Len(wids), t \in Triggers, c \in Functions : UnregisterAct(w, t, c)

SpecRegister == InitRegister /\ [][NextRegister]_vars

\* add_callback, render and display alone: every registration comes from
\* an addition.
NextAddCallback ==
    \/ \E f \in FieldObjs, t \in Triggers, c \in Functions : AddCallbackAct(f, t, c)
    \/ \E f \in FieldObjs, fail \in RegFailures(objs) : RegRenderAct(f, fail)
    \/ \E f \in FormObjs, fail \in RegFailures(objs) : RegDisplayAct(f, fail)

SpecAddCallback == InitRegister /\ [][NextAddCallback]_vars

\* The wrappers of function c in the tables of the widgets made for field f.
RegistrationsOf(f, c) ==
    {<<w, t, k>> \in (1..Len(wids)) \X Triggers \X (1..MaxRegOps) :
        /\ wids[w].field = f
        /\ k <= Len(wcb[w].callbacks[t])
        /\ wcb[w].callbacks[t][k][1] = c}

\* C23: a callback added to a bound field with add_callback(trigger) is
\* registered at most once over all render, display and add_callback calls,
\* and exactly once as soon as the field has a widget with a control.
C23_AddedCallbackRegisteredOnce ==
    \A f \in FieldObjs : \A c \in Added(f) :
        /\ Cardinality(RegistrationsOf(f, c)) <= 1
        /\ (objs[f].widget # 0 /\ wids[objs[f].widget].control = "alive")
              => Cardinality(RegistrationsOf(f, c)) = 1

\* C24: on a rendered widget, register_callback(trigger, callback) followed
\* by unregister_callback(trigger, callback) leaves the callbacks table, the
\* wrapped_callbacks map and the handlers bound to the control as they were
\* before, whatever else is registered.
C24_RegisterUnregisterRestores ==
    \A w \in 1..Len(wids) : \A t \in Triggers, c \in Functions :
        wids[w].control = "alive" =>
            LET R == RegisterOn(wcb[w], TRUE, t, c)
                U == UnregisterOn(R, TRUE, t, c)
            IN  /\ UnregisterError(R, TRUE, t, c) = "none"
                /\ U.callbacks = wcb[w].callbacks
                /\ U.wrapped = wcb[w].wrapped
                /\ U.bound = wcb[w].bound

(***************************************************************************)
(* SpecDefault: the default values a render of a form tree applies.        *)
(***************************************************************************)

MaxDefaultOps == 2  \* render calls made in SpecDefault

\* A default_value: None, a plain value, a callable that returns a plain
\* value, or a callable that returns such a callable.
Defaults == {"None", "plain", "callable", "callable2"}

\* GUIField.set_default_value, lines 425-426: while callable(default):
\* default = default(self).  The number of calls made.
ResolveCalls(d) ==
    IF d = "callable" THEN 1 ELSE IF d = "callable2" THEN 2 ELSE 0

\* GUIField.set_default_value of field x: nothing for None, else one
\* populate(value) on the field's widget.
OwnDefault(O, D, x) ==
    IF D[x] = "None" THEN <<>>
    ELSE <<[field |-> x, calls |-> ResolveCalls(D[x]), widget |-> O[x].widget]>>

\* BaseForm.set_default_value: the form's own, then set_default_value() of
\* every field it yields, which for a field that is a form is this method
\* again.
RECURSIVE SetDefaultValue(_, _, _)
RECURSIVE SetDefaultKids(_, _, _)
SetDefaultKids(O, D, kids) ==
    IF kids = <<>> THEN <<>>
    ELSE SetDefaultValue(O, D, Head(kids)) \o SetDefaultKids(O, D, Tail(kids))

SetDefaultValue(O, D, x) ==
    OwnDefault(O, D, x)
    \o (IF IsForm(O, x) THEN SetDefaultKids(O, D, ObjIter(O, x)) ELSE <<>>)

\* The populate calls of one render() that does not raise, O being the
\* objects after it: GUIField.render applies nothing; BaseForm.render
\* renders every child and then calls self.set_default_value().
RECURSIVE RenderDefaults(_, _, _)
RECURSIVE RenderDefaultsKids(_, _, _)
RenderDefaultsKids(O, D, kids) ==
    IF kids = <<>> THEN <<>>
    ELSE RenderDefaults(O, D, Head(kids)) \o RenderDefaultsKids(O, D, Tail(kids))

RenderDefaults(O, D, f) ==
    IF ~IsForm(O, f) THEN <<>>
    ELSE RenderDefaultsKids(O, D, ObjIter(O, f)) \o SetDefaultValue(O, D, f)

\* field.render() with the default values it applies.
DefaultRenderAct(f) ==
    /\ nCalls < MaxDefaultOps
    /\ \E S \in {RenderTree(Here, f, NoFailure)} :
           /\ objs' = S.objs
           /\ wids' = S.wids
           /\ focus' = S.focus
           /\ call' = [op |-> "render", on |-> f, err |-> S.err]
           /\ applied' = Append(applied,
                                [root |-> f, log |-> RenderDefaults(S.objs, dflt, f)])
    /\ nCalls' = nCalls + 1
    /\ UNCHANGED <<dflt, notDefaultVars>>

\* A dialog holding Text a, Panel b and, in the panel, Text a and a Panel b
\* with a Text a of its own: declarations 1 and 2, the dialog 3, its
\* children 4 and 5, the panel's children 6 and 7, the inner Text 8.
DefaultTree ==
    AddChildObj(AddChildObj(TreeNested, 5, "b", 2), 7, "a", 1)

\* The Text fields carry any default value; the forms carry none.
InitDefault ==
    /\ objs = DefaultTree
    /\ wids = <<>>
    /\ nCalls = 0
    /\ focus = NoFocus
    /\ call = NoCall
    /\ dflt \in {d \in [1..Len(DefaultTree) -> Defaults] :
                    \A x \in 1..Len(DefaultTree) :
                        (DefaultTree[x].kind # "field" \/ IsForm(DefaultTree, x))
                            => d[x] = "None"}
    /\ applied = <<>>
    /\ NoClass
    /\ NoCallbacks
    /\ NoCache
    /\ NoRegistrations
    /\ NoValues
    /\ NoAncestor
    /\ NoWith
    /\ NoNotebook

NextDefault == \E f \in FieldObjs : DefaultRenderAct(f)

SpecDefault == InitDefault /\ [][NextDefault]_vars

TimesApplied(log, x) == Cardinality({k \in 1..Len(log) : log[k].field = x})

\* C25: in every render of a form, each descendant field with a default
\* value has it applied exactly once, to a widget that exists, after as many
\* calls as the default needs to give a value that is not callable; a
\* descendant whose default is None has nothing applied.
C25_DefaultAppliedOncePerRender ==
    \A n \in 1..Len(applied) :
        LET r == applied[n].root
            all == GetAllChildren(objs, r)
        IN  IsForm(objs, r) =>
                /\ \A k \in 1..Len(all) :
                       TimesApplied(applied[n].log, all[k])
                           = IF dflt[all[k]] = "None" THEN 0 ELSE 1
                /\ \A k \in 1..Len(applied[n].log) :
                       /\ applied[n].log[k].widget # 0
                       /\ applied[n].log[k].calls
                             = ResolveCalls(dflt[applied[n].log[k].field])

(***************************************************************************)
(* SpecValue: set_value and get_value of the fields of a rendered form.    *)
(***************************************************************************)

MaxValueOps == 2  \* set_value, get_value and selection steps in SpecValue

\* A Python value with the text str() gives for it: a string, an int, a
\* bool, a list of strings, or None.
PyStr(t) == [kind |-> "str", s |-> t, l |-> <<>>]

PyInt5 == [kind |-> "int", s |-> "5", l |-> <<>>]

PyBool(b) == [kind |-> "bool", s |-> IF b THEN "True" ELSE "False", l |-> <<>>]

PyListX == [kind |-> "list", s |-> "['x']", l |-> <<"x">>]

PyListXY == [kind |-> "list", s |-> "['x', 'y']", l |-> <<"x", "y">>]

PyNone == [kind |-> "none", s |-> "None", l |-> <<>>]

PyValues ==
    {PyStr("x"), PyStr("y"), PyInt5, PyBool(TRUE), PyBool(FALSE), PyListX, PyListXY}

\* The field types of the form, in iteration order.
ValueForm ==
    <<"Text", "CheckBox", "ListBox", "RadioButtonGroup", "ComboBox", "StaticText">>

ChoiceTypes == {"ListBox", "RadioButtonGroup", "ComboBox"}

\* The values a field's set_value takes: BaseText converts anything with
\* str(); a check box takes a bool, a static text a string; a choice field
\* takes the list of its items.
Accepts(t, v) ==
    CASE t = "Text" -> v.kind \in {"str", "int"}
      [] t = "CheckBox" -> v.kind = "bool"
      [] t = "StaticText" -> v.kind = "str"
      [] OTHER -> v.kind = "list"

\* The control of a field after render: a choice field is created with its
\* choices; a radio box always has a selection, a list box starts with none.
NewControl(t) ==
    [type |-> t,
     text |-> "",
     checked |-> FALSE,
     items |-> IF t \in ChoiceTypes THEN <<"x", "y">> ELSE <<>>,
     sel |-> IF t = "RadioButtonGroup" THEN 1 ELSE 0,
     label |-> ""]

\* ChoiceWidget.set_items: control.SetItems of the items, each through str().
\* The selection the toolkit leaves is its own matter: none, or any item.
\* A combo box's text is kept or cleared.  RadioBox.set_items changes
\* nothing in the control.
SetItemsOutcomes(c, v) ==
    IF c.type = "RadioButtonGroup" THEN {c}
    ELSE {[c EXCEPT !.items = v.l, !.sel = k, !.text = x] :
              k \in 0..Len(v.l),
              x \in IF c.type = "ComboBox" THEN {c.text, ""} ELSE {c.text}}

\* GUIField.set_value -> widget.set_value; ChoiceField.set_value ->
\* set_items.  The controls that can come out of it.
WidgetSetValue(c, v) ==
    CASE c.type = "Text" -> {[c EXCEPT !.text = v.s]}
      [] c.type = "CheckBox" -> {[c EXCEPT !.checked = (v.s = "True")]}
      [] c.type = "StaticText" -> {[c EXCEPT !.label = v.s]}
      [] OTHER -> SetItemsOutcomes(c, v)

\* GUIField.get_value -> widget.get_value.
WidgetGetValue(c) ==
    CASE c.type = "Text" -> PyStr(c.text)
      [] c.type = "CheckBox" -> PyBool(c.checked)
      [] c.type = "StaticText" -> PyNone
      [] c.type = "ComboBox" -> PyStr(c.text)
      [] OTHER -> IF c.sel = 0 THEN PyNone ELSE PyStr(c.items[c.sel])

NoValueCall ==
    [op |-> "none", on |-> 0, arg |-> PyNone, items |-> <<>>,
     ret |-> PyNone, res |-> <<>>, follows |-> FALSE]

\* field.set_value(v) on field i of the form.
SetValueAct(i, v) ==
    /\ nCalls < MaxValueOps
    /\ Accepts(vctl[i].type, v)
    /\ \E c \in WidgetSetValue(vctl[i], v) : vctl' = [vctl EXCEPT ![i] = c]
    /\ vcall' = [NoValueCall EXCEPT !.op = "set_value", !.on = i, !.arg = v]
    /\ nCalls' = nCalls + 1
    /\ UNCHANGED <<objs, wids, focus, call, notValueVars>>

\* field.get_value() on field i; follows records that the call before it
\* was set_value on the same field, and arg the value then set.
GetValueAct(i) ==
    /\ nCalls < MaxValueOps
    /\ vcall' = [NoValueCall EXCEPT
                    !.op = "get_value", !.on = i,
                    !.follows = (vcall.op = "set_value" /\ vcall.on = i),
                    !.arg = IF vcall.op = "set_value" /\ vcall.on = i
                            THEN vcall.arg ELSE PyNone,
                    !.ret = WidgetGetValue(vctl[i])]
    /\ nCalls' = nCalls + 1
    /\ UNCHANGED <<vctl, objs, wids, focus, call, notValueVars>>

\* The mappings given to a form's set_value: one or two fields, each with a
\* value it takes.
Mappings ==
    UNION {{m \in [K -> PyValues] : \A k \in K : Accepts(ValueForm[k], m[k])} :
               K \in {K \in SUBSET (1..Len(ValueForm)) : Cardinality(K) \in 1..2}}

\* UIForm.set_value(items): self[key].populate(value) for every entry;
\* populate is set_value, and set_items on a choice field.
FormSetValueAct(m) ==
    /\ nCalls < MaxValueOps
    /\ \E n \in [DOMAIN m -> UNION {WidgetSetValue(vctl[k], m[k]) : k \in DOMAIN m}] :
           /\ \A k \in DOMAIN m : n[k] \in WidgetSetValue(vctl[k], m[k])
           /\ vctl' = [k \in DOMAIN vctl |-> IF k \in DOMAIN m THEN n[k] ELSE vctl[k]]
    /\ vcall' = [NoValueCall EXCEPT !.op = "form.set_value", !.items = m]
    /\ nCalls' = nCalls + 1
    /\ UNCHANGED <<objs, wids, focus, call, notValueVars>>

\* BaseForm.get_value(): every field's get_value under its name.
FormGetValueAct ==
    /\ nCalls < MaxValueOps
    /\ vcall' = [NoValueCall EXCEPT
                    !.op = "form.get_value",
                    !.follows = (vcall.op = "form.set_value"),
                    !.items = IF vcall.op = "form.set_value" THEN vcall.items ELSE <<>>,
                    !.res = [k \in DOMAIN vctl |-> WidgetGetValue(vctl[k])]]
    /\ nCalls' = nCalls + 1
    /\ UNCHANGED <<vctl, objs, wids, focus, call, notValueVars>>

\* The user picks item k of a list box or radio box.
SelectAct(i, k) ==
    /\ nCalls < MaxValueOps
    /\ vctl[i].type \in {"ListBox", "RadioButtonGroup"}
    /\ k \in 1..Len(vctl[i].items)
    /\ vctl' = [vctl EXCEPT ![i].sel = k]
    /\ vcall' = [NoValueCall EXCEPT !.op = "select", !.on = i]
    /\ nCalls' = nCalls + 1
    /\ UNCHANGED <<objs, wids, focus, call, notValueVars>>

InitValue ==
    /\ NoObjects
    /\ vctl = [i \in 1..Len(ValueForm) |-> NewControl(ValueForm[i])]
    /\ vcall = NoValueCall
    /\ NoClass
    /\ NoCallbacks
    /\ NoCache
    /\ NoRegistrations
    /\ NoDefaults
    /\ NoAncestor
    /\ NoWith
    /\ NoNotebook

NextValue ==
    \/ \E i \in 1..Len(ValueForm), v \in PyValues : SetValueAct(i, v)
    \/ \E i \in 1..Len(ValueForm) : GetValueAct(i)
    \/ \E m \in Mappings : FormSetValueAct(m)
    \/ FormGetValueAct
    \/ \E i \in 1..Len(ValueForm), k \in 1..2 : SelectAct(i, k)

SpecValue == InitValue /\ [][NextValue]_vars

\* C26: get_value() right after set_value(v) on a field returns v, and a
\* form's get_value() right after its set_value(mapping) returns, under
\* every key of the mapping, the value set.
C26_SetValueGetValueRoundTrip ==
    /\ (vcall.op = "get_value" /\ vcall.follows) => vcall.ret = vcall.arg
    /\ (vcall.op = "form.get_value" /\ vcall.follows) =>
           \A k \in DOMAIN vcall.items : vcall.res[k] = vcall.items[k]

(***************************************************************************)
(* SpecAncestor: get_first_ancestor on fields constructed and bound.       *)
(***************************************************************************)

MaxAncObjs == 3  \* declarations and fields constructed in SpecAncestor

\* GUIField.get_first_ancestor: parent = self; current = None; while parent
\* is not None: current = parent; parent = parent.parent.  0 is None.
RECURSIVE FirstAncestorLoop(_, _, _)
FirstAncestorLoop(O, parent, current) ==
    IF parent = 0 THEN current
    ELSE FirstAncestorLoop(O, O[parent].parent, parent)

GetFirstAncestor(O, f) == FirstAncestorLoop(O, f, 0)

NoAncestorCall == [on |-> 0, ret |-> 0]

\* field.get_first_ancestor()
GetFirstAncestorAct(f) ==
    /\ anc' = [on |-> f, ret |-> GetFirstAncestor(objs, f)]
    /\ UNCHANGED <<fieldVars, notAncVars>>

InitAncestor ==
    /\ objs = <<ConstructObj("Panel", TopKw)>>
    /\ wids = <<>>
    /\ nCalls = 0
    /\ focus = NoFocus
    /\ call = NoCall
    /\ anc = NoAncestorCall
    /\ NoClass
    /\ NoCallbacks
    /\ NoCache
    /\ NoRegistrations
    /\ NoDefaults
    /\ NoValues
    /\ NoWith
    /\ NoNotebook

NextAncestor ==
    \/ \E t \in BindTypes, kw \in CtorKwargs(FormObjs) :
           Len(objs) < MaxAncObjs /\ Construct(t, kw)
    \/ \E d \in DeclObjs, p \in {0} \cup FormObjs, n \in BindNames :
           Len(objs) < MaxAncObjs /\ BindAct(d, p, n)
    \/ \E f \in FieldObjs : GetFirstAncestorAct(f)

SpecAncestor == InitAncestor /\ [][NextAncestor]_vars

\* The fields above f: its parent, the parent's parent, and so on.
RECURSIVE AncestorsOf(_, _)
AncestorsOf(O, f) ==
    IF O[f].parent = 0 THEN {} ELSE {O[f].parent} \cup AncestorsOf(O, O[f].parent)

\* C30: get_first_ancestor() of a field without a parent returns None, and
\* of any other field the one field above it that has no parent.
C30_FirstAncestorTopmostOrNone ==
    anc.on # 0 =>
        IF objs[anc.on].parent = 0 THEN anc.ret = 0
        ELSE /\ anc.ret \in AncestorsOf(objs, anc.on)
             /\ objs[anc.ret].parent = 0

(***************************************************************************)
(* SpecWith: with statements over FreezeAndThaw and DisplayAndDestroy.     *)
(***************************************************************************)

MaxWith == 3  \* with statements executed in SpecWith

Managers == {"FreezeAndThaw", "DisplayAndDestroy"}

\* The objects handed to the managers (to_freeze, to_display).
Targets == {1, 2}

\* The method __enter__ calls, and the one __exit__ calls.
EnterCall(m) == IF m = "FreezeAndThaw" THEN "freeze" ELSE "display_modal"

ExitCall(m) == IF m = "FreezeAndThaw" THEN "thaw" ELSE "destroy"

\* An __exit__ that returned a true value: the exception would stop there.
ExitReturnsTrue(m) == TRUE

\* What __exit__ returns, as the with statement reads it: both methods end
\* without a return statement, so None, and the exception goes on.
ExitSuppresses(m) == FALSE

\* The with statements entered and not yet left, innermost last.
Active(B) == {k \in 1..Len(B) : B[k].state = "body"}

Innermost(B) == CHOOSE k \in Active(B) : \A j \in Active(B) : j <= k

\* with Manager(target): -- __enter__ calls freeze() or display_modal() on
\* the target; if that raises, the body and __exit__ never run.
WithEnterAct(m, t, ok) ==
    /\ exc = "none"
    /\ Len(blocks) < MaxWith
    /\ blocks' = Append(blocks,
                        [manager |-> m, target |-> t,
                         state |-> IF ok THEN "body" ELSE "not entered",
                         calls |-> <<EnterCall(m)>>,
                         body |-> IF ok THEN "running" ELSE "not run",
                         after |-> IF ok THEN "inside" ELSE "propagates"])
    /\ exc' = IF ok THEN "none" ELSE "raised"
    /\ UNCHANGED <<fieldVars, notWithVars>>

\* The body of the innermost with statement raises.
BodyRaiseAct ==
    /\ exc = "none"
    /\ Active(blocks) # {}
    /\ blocks' = [blocks EXCEPT ![Innermost(blocks)].body = "raised"]
    /\ exc' = "raised"
    /\ UNCHANGED <<fieldVars, notWithVars>>

\* The innermost with statement is left, its body finished or an exception
\* on its way out: __exit__(*args) calls thaw() or destroy() on the target,
\* which may raise too; the exception goes on unless __exit__ returned a
\* true value.
WithExitAct(ok) ==
    /\ Active(blocks) # {}
    /\ \E S \in {[k |-> Innermost(blocks),
                  out |-> IF ~ok THEN "raised"
                          ELSE IF exc = "raised" /\ ExitSuppresses(blocks[Innermost(blocks)].manager)
                               THEN "none" ELSE exc]} :
           /\ blocks' = [blocks EXCEPT
                            ![S.k].state = "exited",
                            ![S.k].calls = Append(@, ExitCall(blocks[S.k].manager)),
                            ![S.k].body = IF @ = "running" /\ exc = "none"
                                          THEN "finished"
                                          ELSE IF @ = "running" THEN "raised inside"
                                          ELSE @,
                            ![S.k].after = IF S.out = "raised" THEN "propagates"
                                           ELSE "goes on"]
           /\ exc' = S.out
    /\ UNCHANGED <<fieldVars, notWithVars>>

\* The caller catches an exception that left every with statement.
CatchAct ==
    /\ exc = "raised"
    /\ Active(blocks) = {}
    /\ exc' = "none"
    /\ UNCHANGED <<blocks, fieldVars, notWithVars>>

InitWith ==
    /\ NoObjects
    /\ blocks = <<>>
    /\ exc = "none"
    /\ NoClass
    /\ NoCallbacks
    /\ NoCache
    /\ NoRegistrations
    /\ NoDefaults
    /\ NoValues
    /\ NoAncestor
    /\ NoNotebook

NextWith ==
    \/ \E m \in Managers, t \in Targets, ok \in BOOLEAN : WithEnterAct(m, t, ok)
    \/ BodyRaiseAct
    \/ \E ok \in BOOLEAN : WithExitAct(ok)
    \/ CatchAct

SpecWith == InitWith /\ [][NextWith]_vars

\* C29: a with statement whose body is running has made the entry call and
\* no other; one that was left, its body finished or raised, has made the
\* entry call and then the exit call, once each; and after a body (its own
\* or an inner one) raised, the exception still propagates when the
\* statement is left.
C29_ContextManagersPairCalls ==
    \A k \in 1..Len(blocks) :
        LET b == blocks[k]
        IN  /\ b.state = "body" => b.calls = <<EnterCall(b.manager)>>
            /\ b.state = "exited" =>
                   /\ b.calls = <<EnterCall(b.manager), ExitCall(b.manager)>>
                   /\ b.body \in {"raised", "raised inside"} => b.after = "propagates"

\* C29 witness: a FreezeAndThaw statement whose body raised and a
\* DisplayAndDestroy statement whose body finished have both been left.
C29_Witness ==
    /\ \E k \in 1..Len(blocks) :
           /\ blocks[k].manager = "FreezeAndThaw"
           /\ blocks[k].state = "exited"
           /\ blocks[k].body = "raised"
    /\ \E k \in 1..Len(blocks) :
           /\ blocks[k].manager = "DisplayAndDestroy"
           /\ blocks[k].state = "exited"
           /\ blocks[k].body = "finished"

(***************************************************************************)
(* SpecNotebook: pages of a rendered Notebook and keyboard navigation      *)
(* between the notebook and the fields of its pages.                       *)
(***************************************************************************)

MaxNbOps == 4  \* calls and events in SpecNotebook

\* A dialog with a notebook that declares one page holding two Text fields:
\* declarations 1 to 3, the dialog 4, the notebook 5, the page 6, its
\* fields 7 and 8.
NbBase ==
    <<ConstructObj("Text", DeclKw), ConstructObj("Panel", DeclKw),
      ConstructObj("Notebook", DeclKw), ConstructObj("Dialog", TopKw)>>

NbDeclared ==
    AddChildObj(AddChildObj(AddChildObj(AddChildObj(NbBase, 4, "a", 3),
                                        5, "a", 2), 6, "a", 1), 6, "b", 1)

NB == 5

\* The tree after dialog.render().
NbRendered ==
    RenderTree([objs |-> NbDeclared, wids |-> <<>>, focus |-> NoFocus,
                raised |-> FALSE, err |-> "none"], 4, NoFailure)

\* Panel(parent=notebook), twice, made after the render: panel 9 with a Text
\* field 10, and panel 11 with no field.
ItemKw == [DeclKw EXCEPT !.hasParent = TRUE, !.parent = NB]

NbObjects ==
    Append(AddChildObj(Append(NbRendered.objs, ConstructObj("Panel", ItemKw)),
                       9, "a", 1),
           ConstructObj("Panel", ItemKw))

NbItems == {9, 11}

RangeOf(s) == {s[k] : k \in 1..Len(s)}

\* The entries of s that are in the set K, in order.
RECURSIVE Keep(_, _)
Keep(s, K) ==
    IF s = <<>> THEN <<>>
    ELSE (IF Head(s) \in K THEN <<Head(s)>> ELSE <<>>) \o Keep(Tail(s), K)

\* list.remove: s without its first entry equal to x.
RECURSIVE RemoveItem(_, _)
RemoveItem(s, x) ==
    IF s = <<>> THEN <<>>
    ELSE IF Head(s) = x THEN Tail(s)
    ELSE <<Head(s)>> \o RemoveItem(Tail(s), x)

\* Form.__iter__ of the notebook: the declared page, then the entries of
\* _extra_fields that add_item made (named repr(item)) whose name is still
\* in _fields.
NbIter(O, N) == ObjIter(O, NB) \o Keep(N.extra, N.has)

\* Notebook.find_page_number: the first page that is the control of the
\* item's widget; 0 stands for the None that falls out of the loop.
PageNumber(N, item) ==
    IF item \in RangeOf(N.pages)
    THEN CHOOSE k \in 1..Len(N.pages) :
             N.pages[k] = item /\ \A j \in 1..(k - 1) : N.pages[j] # item
    ELSE 0

NoNav ==
    [op |-> "none", n |-> 0, page |-> 0, at |-> 0, dir |-> "none",
     skipped |-> FALSE, focused |-> <<>>, err |-> "none", ret |-> 0]

\* notebook.add_item(label, item): add_child(repr(item), item) binds the
\* item, stores it and appends it to _extra_fields, and sets the notebook's
\* _last_child; then item.widget is read (AttributeError for an item that
\* was not rendered) and the widget's add_item adds the page, which the
\* toolkit selects when it is the first, and binds the navigation handler
\* when the item has any descendant.
AddItemAct(item) ==
    /\ item \notin RangeOf(nbk.pages)
    /\ item \notin nbk.deleted
    /\ objs' = [objs EXCEPT ![item].parent = NB, ![item].bound_name = "repr"]
    /\ cache' = [cache EXCEPT ![NB].last_child =
                    IF GetAllChildren(objs, item) = <<>> THEN item
                    ELSE LastOf(GetAllChildren(objs, item))]
    /\ IF objs[item].widget = 0
       THEN /\ nbk' = [nbk EXCEPT !.extra = Append(@, item), !.has = @ \cup {item}]
            /\ nav' = [NoNav EXCEPT !.op = "add_item", !.n = nCalls + 1,
                                    !.page = item, !.err = "AttributeError"]
       ELSE /\ nbk' = [nbk EXCEPT
                          !.extra = Append(@, item),
                          !.has = @ \cup {item},
                          !.pages = Append(@, item),
                          !.sel = IF nbk.pages = <<>> THEN 1 ELSE @,
                          !.bound = IF GetAllChildren(objs, item) = <<>> THEN @
                                    ELSE @ \cup {item}]
            /\ nav' = [NoNav EXCEPT !.op = "add_item", !.n = nCalls + 1,
                                    !.page = item]
    /\ nCalls' = nCalls + 1
    /\ UNCHANGED <<wids, focus, call, ctl, notNbCacheVars>>

\* The selections the toolkit can leave when page k of N goes: the same
\* page as before, or, when the selected page itself goes, any page left.
SelectionsAfterDelete(N, k) ==
    IF N.sel = k
    THEN (IF Len(N.pages) = 1 THEN {0} ELSE 1..(Len(N.pages) - 1))
    ELSE IF N.sel > k THEN {N.sel - 1} ELSE {N.sel}

\* notebook.delete_item(item): delete_child(repr(item)) -- KeyError when
\* that name is no child (as for the declared page, stored under its
\* declared name), AttributeError when the child has no widget, both before
\* anything changes -- removes the entry and sets the notebook's caches to
\* None; then the widget's delete_page deletes the page found_page_number
\* finds (a toolkit error for None).
DeleteItemAct(item) ==
    /\ IF item \notin nbk.has \/ objs[item].widget = 0
       THEN /\ UNCHANGED <<nbk, cache>>
            /\ nav' = [NoNav EXCEPT
                          !.op = "delete_item", !.n = nCalls + 1, !.page = item,
                          !.err = IF item \notin nbk.has THEN "KeyError"
                                  ELSE "AttributeError"]
       ELSE /\ cache' = Invalidate(cache, NB)
            /\ \E k \in {PageNumber(nbk, item)} :
                   IF k = 0
                   THEN /\ nbk' = [nbk EXCEPT !.extra = RemoveItem(@, item),
                                              !.has = @ \ {item}]
                        /\ nav' = [NoNav EXCEPT
                                      !.op = "delete_item", !.n = nCalls + 1,
                                      !.page = item, !.err = "TypeError"]
                   ELSE /\ \E s \in SelectionsAfterDelete(nbk, k) :
                               nbk' = [nbk EXCEPT
                                          !.extra = RemoveItem(@, item),
                                          !.has = @ \ {item},
                                          !.pages = RemoveItem(@, item),
                                          !.sel = s,
                                          !.bound = @ \ {item},
                                          !.deleted = @ \cup {item}]
                        /\ nav' = [NoNav EXCEPT
                                      !.op = "delete_item", !.n = nCalls + 1,
                                      !.page = item]
    /\ nCalls' = nCalls + 1
    /\ UNCHANGED <<objs, wids, focus, call, ctl, notNbCacheVars>>

\* notebook.set_selection(k - 1), or the user picking a tab.
SetSelectionAct(k) ==
    /\ k \in 1..Len(nbk.pages)
    /\ nbk' = [nbk EXCEPT !.sel = k]
    /\ nav' = [NoNav EXCEPT !.op = "set_selection", !.n = nCalls + 1]
    /\ nCalls' = nCalls + 1
    /\ UNCHANGED <<objs, wids, focus, call, ctl, cache, notNbCacheVars>>

\* notebook.get_current_page(): None without children or selection, else
\* children[selection], an IndexError past the end.
GetCurrentPageAct ==
    /\ \E kids \in {NbIter(objs, nbk)} :
           nav' = [NoNav EXCEPT
                      !.op = "get_current_page", !.n = nCalls + 1,
                      !.err = IF kids # <<>> /\ nbk.sel > Len(kids)
                              THEN "IndexError" ELSE "none",
                      !.ret = IF kids = <<>> \/ nbk.sel = 0 \/ nbk.sel > Len(kids)
                              THEN 0 ELSE kids[nbk.sel]]
    /\ nCalls' = nCalls + 1
    /\ UNCHANGED <<objs, wids, focus, call, ctl, cache, nbk, notNbCacheVars>>

\* on_navigation_key of a page, the focus being in field at of the page.
\* A page added while it had no descendant has no handler and the toolkit
\* navigates by itself.  The handler lists the enabled focusable
\* descendants (child.widget raises for one without a widget); at the last
\* of them going forward, or the first going backward, it gives the focus
\* to the notebook and does not skip; otherwise it skips.
NavPageAct(page, at, forward) ==
    /\ page \in RangeOf(nbk.pages)
    /\ at \in RangeOf(GetAllChildren(objs, page))
    /\ objs[at].widget # 0
    /\ CanBeFocused(objs[at].ftype)
    /\ CanAcceptFocus(objs, wids, ctl, at)
    /\ \E ef \in {IF AllRendered(objs, wids, page)
                  THEN EnabledFocusable(objs, wids, ctl, GetAllChildren(objs, page))
                  ELSE <<>>} :
           nav' = [NoNav EXCEPT
                      !.op = "page", !.n = nCalls + 1, !.page = page, !.at = at,
                      !.dir = IF forward THEN "forward" ELSE "backward",
                      !.err = IF page \in nbk.bound /\ ~AllRendered(objs, wids, page)
                              THEN "AttributeError" ELSE "none",
                      !.skipped =
                          IF page \notin nbk.bound THEN TRUE
                          ELSE IF ~AllRendered(objs, wids, page) THEN FALSE
                          ELSE IF ef = <<>> THEN TRUE
                          ELSE ~(\/ forward /\ at = LastOf(ef)
                                 \/ ~forward /\ at = ef[1]),
                      !.focused =
                          IF /\ page \in nbk.bound
                             /\ AllRendered(objs, wids, page)
                             /\ ef # <<>>
                             /\ (\/ forward /\ at = LastOf(ef)
                                 \/ ~forward /\ at = ef[1])
                          THEN <<NB>> ELSE <<>>]
    /\ nCalls' = nCalls + 1
    /\ UNCHANGED <<objs, wids, focus, call, ctl, cache, nbk, notNbCacheVars>>

\* The children the handler of the notebook walks through before it meets
\* the field of page p: all of them when none is.
RECURSIVE Before(_, _)
Before(s, p) ==
    IF s = <<>> \/ Head(s) = p THEN <<>> ELSE <<Head(s)>> \o Before(Tail(s), p)

\* on_notebook_navigation, the focus being on the notebook: for the selected
\* page it looks up the child whose widget's control is that page
\* (field.widget raises for a child without a widget) and gives the focus
\* to that field's get_first_enabled_descendant() going forward, or its
\* get_last_enabled_descendant() -- the cached one when there is one --
\* going backward; it skips when there is no selection, no such child or no
\* such descendant.
NavNotebookAct(forward) ==
    /\ CanAcceptFocus(objs, wids, ctl, NB)
    /\ \E S \in {[kids |-> NbIter(objs, nbk),
                  page |-> IF nbk.sel = 0 THEN 0 ELSE nbk.pages[nbk.sel]]} :
       \E R \in {IF S.page = 0 THEN [err |-> "none", to |-> 0, K |-> cache]
                 ELSE IF \E x \in RangeOf(Before(S.kids, S.page)) : objs[x].widget = 0
                 THEN [err |-> "AttributeError", to |-> 0, K |-> cache]
                 ELSE IF S.page \notin RangeOf(S.kids)
                 THEN [err |-> "none", to |-> 0, K |-> cache]
                 ELSE IF ~forward /\ cache[S.page].last_enabled # 0
                 THEN [err |-> "none", to |-> cache[S.page].last_enabled, K |-> cache]
                 ELSE IF ~AllRendered(objs, wids, S.page)
                 THEN [err |-> "AttributeError", to |-> 0, K |-> cache]
                 ELSE IF forward
                 THEN [err |-> "none",
                       to |-> LET ef == EnabledFocusable(objs, wids, ctl,
                                            GetAllChildren(objs, S.page))
                              IN  IF ef = <<>> THEN 0 ELSE ef[1],
                       K |-> cache]
                 ELSE [err |-> "none",
                       to |-> LastEnabledComputed(objs, wids, ctl, S.page),
                       K |-> [cache EXCEPT ![S.page].last_enabled =
                                 LastEnabledComputed(objs, wids, ctl, S.page)]]} :
           /\ cache' = R.K
           /\ nav' = [NoNav EXCEPT
                         !.op = "notebook", !.n = nCalls + 1, !.page = S.page,
                         !.dir = IF forward THEN "forward" ELSE "backward",
                         !.err = R.err,
                         !.skipped = (R.err = "none" /\ R.to = 0),
                         !.focused = IF R.to = 0 THEN <<>> ELSE <<R.to>>]
    /\ nCalls' = nCalls + 1
    /\ UNCHANGED <<objs, wids, focus, call, ctl, nbk, notNbCacheVars>>

InitNotebook ==
    /\ objs = NbObjects
    /\ wids = NbRendered.wids
    /\ nCalls = 0
    /\ focus = NoFocus
    /\ call = NoCall
    /\ ctl = [f \in 1..Len(NbObjects) |-> NewCtl]
    /\ cache = [f \in 1..Len(NbObjects) |-> NoCached]
    /\ nbk = [extra |-> <<>>, has |-> {}, pages |-> <<6>>, sel |-> 1,
              bound |-> {6}, deleted |-> {}]
    /\ nav = NoNav
    /\ NoClass
    /\ NoCallbacks
    /\ NoRegistrations
    /\ NoDefaults
    /\ NoValues
    /\ NoAncestor
    /\ NoWith

\* The fields of the pages.
NbLeaves == {f \in FieldObjs : objs[f].parent \in {6} \cup NbItems}

NextNotebook ==
    \/ \E item \in NbItems : nCalls < MaxNbOps /\ AddItemAct(item)
    \/ \E item \in {6} \cup NbItems : nCalls < MaxNbOps /\ DeleteItemAct(item)
    \/ \E k \in 1..3 : nCalls < MaxNbOps /\ SetSelectionAct(k)
    \/ nCalls < MaxNbOps /\ GetCurrentPageAct
    \/ \E page \in {6} \cup NbItems, at \in FieldObjs, forward \in BOOLEAN :
           nCalls < MaxNbOps /\ NavPageAct(page, at, forward)
    \/ \E forward \in BOOLEAN : nCalls < MaxNbOps /\ NavNotebookAct(forward)
    \/ \E f \in NbLeaves, val \in BOOLEAN : nCalls < MaxNbOps /\ SetEnabledAct(f, val)
    \/ \E f \in NbLeaves, val \in BOOLEAN : nCalls < MaxNbOps /\ SetShownAct(f, val)
    \/ \E p \in {6, 11} : nCalls < MaxNbOps /\ CacheAddChildAct(p, "c", 1)
    \/ \E f \in NbItems \cup NbLeaves :
           /\ nCalls < MaxNbOps
           /\ objs[objs[f].parent].widget # 0
           /\ CacheRenderAct(f)

SpecNotebook == InitNotebook /\ [][NextNotebook]_vars

\* C27: the pages of the native control are the widgets of the notebook's
\* children, in iteration order, and get_current_page() returns the field of
\* the selected page, or None when there is no page or no selection.
C27_PagesFollowChildren ==
    /\ nbk.pages = NbIter(objs, nbk)
    /\ nav.op = "get_current_page" =>
           /\ nav.err = "none"
           /\ nav.ret = IF nbk.pages = <<>> \/ nbk.sel = 0 THEN 0
                        ELSE nbk.pages[nbk.sel]

\* C28: right after a navigation event, with ef the enabled focusable
\* descendants of the page: an event in a page gave the focus to the
\* notebook and was not skipped exactly when the focused field was the last
\* of ef going forward or the first going backward; an event on the notebook
\* gave the focus to the first of ef going forward, the last going
\* backward, and was not skipped; in every other case the event was skipped
\* and the focus not moved.
C28_NavigationAtPageBoundaries ==
    (nav.op \in {"page", "notebook"} /\ nav.n = nCalls) =>
        LET ef == IF nav.page = 0 THEN <<>>
                  ELSE EnabledFocusable(objs, wids, ctl, GetAllChildren(objs, nav.page))
            forward == nav.dir = "forward"
            to == IF nav.op = "page"
                  THEN (IF ef # <<>> /\ (\/ forward /\ nav.at = LastOf(ef)
                                         \/ ~forward /\ nav.at = ef[1])
                        THEN NB ELSE 0)
                  ELSE (IF ef = <<>> THEN 0
                        ELSE IF forward THEN ef[1] ELSE LastOf(ef))
        IN  /\ nav.err = "none"
            /\ nav.skipped = (to = 0)
            /\ nav.focused = IF to = 0 THEN <<>> ELSE <<to>>

====
